---------------------------- MODULE Spec2Model ----------------------------
(***************************************************************************)
(* Adviser AI: the batch transcript pipeline (BatchProcessor), the merge   *)
(* of an extraction into a client record (runFullExtraction/applyFields,   *)
(* App.setNestedValue), identity matching and the record store.            *)
(*                                                                         *)
(* JavaScript values are modelled as trees: a function from relative paths *)
(* (sequences of property names) to nodes, the node at <<>> being the      *)
(* value itself.  Strings are sequences of one-character strings so that   *)
(* Number(), parseFloat(), toLowerCase(), trim() and includes() are        *)
(* computed, not assumed.  Confidences are in hundredths (0.6 is 60).      *)
(***************************************************************************)
EXTENDS Integers, Sequences, FiniteSets, TLC

(***************************************************************************)
(* JavaScript values                                                       *)
(***************************************************************************)
Node(k, n, s) == [k |-> k, n |-> n, s |-> s]

Scalar(nd) == (<<>> :> nd)

Str(s) == Scalar(Node("str", 0, s))

Num(n) == Scalar(Node("num", n, <<>>))

Bool(b) == Scalar(Node("bool", IF b THEN 1 ELSE 0, <<>>))

Null == Scalar(Node("null", 0, <<>>))

Undefined == Scalar(Node("undef", 0, <<>>))

NaN == Scalar(Node("nan", 0, <<>>))

EmptyObj == Scalar(Node("obj", 0, <<>>))

EmptyArr == Scalar(Node("arr", 0, <<>>))

Kind(v) == v[<<>>].k

IsContainer(v) == Kind(v) \in {"obj", "arr"}

\* JavaScript truthiness of a value (used by `||`, `!x` and filter callbacks).
Truthy(v) ==
    CASE Kind(v) = "str"  -> v[<<>>].s # <<>>
      [] Kind(v) = "num"  -> v[<<>>].n # 0
      [] Kind(v) = "bool" -> v[<<>>].n = 1
      [] Kind(v) \in {"null", "undef", "nan"} -> FALSE
      [] OTHER -> TRUE

(***************************************************************************)
(* Strings: String.prototype.trim, toLowerCase, includes, Number(string),  *)
(* parseFloat(string)                                                      *)
(***************************************************************************)
DigitVal == ("0" :> 0) @@ ("1" :> 1) @@ ("2" :> 2) @@ ("3" :> 3) @@ ("4" :> 4)
            @@ ("5" :> 5) @@ ("6" :> 6) @@ ("7" :> 7) @@ ("8" :> 8) @@ ("9" :> 9)

IsDigit(c) == c \in DOMAIN DigitVal

UpperToLower == ("A" :> "a") @@ ("B" :> "b") @@ ("J" :> "j") @@ ("M" :> "m")
                @@ ("S" :> "s") @@ ("X" :> "x")

ToLowerCase(s) ==
    [i \in 1..Len(s) |-> IF s[i] \in DOMAIN UpperToLower THEN UpperToLower[s[i]] ELSE s[i]]

RECURSIVE TrimStart(_)
TrimStart(s) == IF s # <<>> /\ Head(s) = " " THEN TrimStart(Tail(s)) ELSE s

RECURSIVE TrimEnd(_)
TrimEnd(s) ==
    IF s # <<>> /\ s[Len(s)] = " " THEN TrimEnd(SubSeq(s, 1, Len(s) - 1)) ELSE s

Trim(s) == TrimEnd(TrimStart(s))

\* str.includes(sub): sub occurs as a contiguous substring of str.
Includes(str, sub) ==
    \E i \in 0..(Len(str) - Len(sub)) : SubSeq(str, i + 1, i + Len(sub)) = sub

RECURSIVE DigitsValue(_, _)
DigitsValue(s, acc) ==
    IF s = <<>> THEN acc ELSE DigitsValue(Tail(s), acc * 10 + DigitVal[Head(s)])

AllDigits(s) == s # <<>> /\ \A i \in 1..Len(s) : IsDigit(s[i])

\* Number(string) is not NaN: the trimmed string is empty (0) or a decimal literal.
StringIsNumeric(s) == Trim(s) = <<>> \/ AllDigits(Trim(s))

\* parseFloat(string): the numeric prefix after leading white space, else NaN.
RECURSIVE DigitPrefix(_)
DigitPrefix(s) ==
    IF s # <<>> /\ IsDigit(Head(s)) THEN <<Head(s)>> \o DigitPrefix(Tail(s)) ELSE <<>>

ParseFloatString(s) ==
    LET p == DigitPrefix(TrimStart(s))
    IN IF p = <<>> THEN NaN ELSE Num(DigitsValue(p, 0))

\* String(value) for the scalars parseFloat is handed.
BoolString(b) == IF b = 1 THEN <<"t", "r", "u", "e">> ELSE <<"f", "a", "l", "s", "e">>

(***************************************************************************)
(* Paths: "a.b[0].c" as a sequence of tokens, keys and the punctuation     *)
(* ".", "[", "]" (src/js/app.js:1121, 1421)                                *)
(***************************************************************************)
IndexStr == <<"0", "1", "2", "3", "4", "5", "6", "7">>

IndexVal == [d \in {IndexStr[i] : i \in 1..Len(IndexStr)} |-> DigitVal[d]]

\* /^\d+$/.test(part)
IsIndex(part) == part \in DOMAIN IndexVal

\* path.replace(/\[(\d+)\]/g, '.$1')
RECURSIVE ReplaceBrackets(_)
ReplaceBrackets(p) ==
    IF p = <<>> THEN <<>>
    ELSE IF Len(p) >= 3 /\ p[1] = "[" /\ IsIndex(p[2]) /\ p[3] = "]"
         THEN <<".", p[2]>> \o ReplaceBrackets(SubSeq(p, 4, Len(p)))
         ELSE <<Head(p)>> \o ReplaceBrackets(Tail(p))

\* str.split('.') on the token sequence: the keys between the dots.
RECURSIVE SplitDots(_)
SplitDots(p) == IF p = <<>> THEN <<>>
                ELSE IF Head(p) = "." THEN SplitDots(Tail(p))
                ELSE <<Head(p)>> \o SplitDots(Tail(p))

PathParts(path) == SplitDots(ReplaceBrackets(path))

\* `${prefix}.${key}` or key when prefix is empty
JoinKey(prefix, key) == IF prefix = <<>> THEN <<key>> ELSE prefix \o <<".", key>>

\* `${path}[${index}]`
JoinIndex(path, index) == path \o <<"[", IndexStr[index + 1], "]">>

(***************************************************************************)
(* Trees.  A value that is used more than once is bound by a quantifier    *)
(* (t \in {T}), which computes it once.                                     *)
(***************************************************************************)
IsPrefix(p, q) == Len(p) <= Len(q) /\ SubSeq(q, 1, Len(p)) = p

\* The value at path p of tree T (p \in DOMAIN T), as a tree of its own.
SubTree(T, p) ==
    CHOOSE sub \in {[r \in {SubSeq(q, Len(p) + 1, Len(q)) : q \in {x \in DOMAIN t : IsPrefix(p, x)}}
                        |-> t[p \o r]] : t \in {T}} : TRUE

\* T with everything at or under path p removed.
Prune(T, p) ==
    CHOOSE rest \in {[q \in {x \in DOMAIN t : ~IsPrefix(p, x)} |-> t[q]] : t \in {T}} : TRUE

\* current[part] = V, where current is the container at path cur of T.
Assign(T, cur, part, V) ==
    CHOOSE res \in
      {LET base == Prune(t, p)
           put  == [q \in {p \o r : r \in DOMAIN v} |-> v[SubSeq(q, Len(p) + 1, Len(q))]]
           grow == IF t[cur].k = "arr" /\ IsIndex(part) /\ IndexVal[part] >= t[cur].n
                   THEN (cur :> Node("arr", IndexVal[part] + 1, <<>>))
                   ELSE (cur :> t[cur])
       IN put @@ grow @@ base : t \in {T}, v \in {V}, p \in {Append(cur, part)}} : TRUE

\* current[part] read from the value at path cur of T
Member(T, cur, part) ==
    CHOOSE res \in
      {IF t[cur].k \in {"obj", "arr"}
       THEN IF Append(cur, part) \in DOMAIN t THEN SubTree(t, Append(cur, part)) ELSE Undefined
       ELSE IF t[cur].k = "str" /\ IsIndex(part) /\ IndexVal[part] < Len(t[cur].s)
            THEN Str(<<t[cur].s[IndexVal[part] + 1]>>)
            ELSE Undefined : t \in {T}} : TRUE

\* The array slots that hold nothing (holes): indices below length with no element
Holes(T) ==
    {Append(a, IndexStr[i + 1]) : <<a, i>> \in
        {<<a, i>> \in {a \in DOMAIN T : T[a].k = "arr"} \X (0..(Len(IndexStr) - 1)) : i < T[a].n}}
    \ DOMAIN T

\* JSON.parse(JSON.stringify(value)): NaN becomes null, a property that is
\* undefined is dropped, an array slot that is undefined or a hole becomes null
JsonClone(T) ==
    CHOOSE clone \in
      {[p \in {q \in DOMAIN t : ~(q # <<>> /\ t[q].k = "undef"
                                    /\ t[SubSeq(q, 1, Len(q) - 1)].k = "obj")} \cup Holes(t)
          |-> IF p \notin DOMAIN t \/ t[p].k \in {"nan", "undef"}
              THEN Node("null", 0, <<>>) ELSE t[p]] : t \in {T}} : TRUE

(***************************************************************************)
(* App.getNestedValueSafe, App.setNestedValue (src/js/app.js)              *)
(***************************************************************************)
RECURSIVE GetWalk(_, _, _)
GetWalk(current, parts, i) ==
    IF i > Len(parts) THEN current
    ELSE CHOOSE res \in
           {IF Kind(c) \in {"null", "undef"} THEN Undefined
            ELSE GetWalk(Member(c, <<>>, parts[i]), parts, i + 1) : c \in {current}} : TRUE

getNestedValueSafe(obj, path) == GetWalk(obj, PathParts(path), 1)

\* The coercion of lines 1136-1143: Number(value) is not NaN => parseFloat(value).
CoerceValue(value) ==
    LET nd == value[<<>>]
    IN CASE nd.k = "str" ->
              IF nd.s # <<>> /\ StringIsNumeric(nd.s) THEN ParseFloatString(nd.s)
              ELSE IF nd.s = <<"t", "r", "u", "e">> THEN Bool(TRUE)
              ELSE IF nd.s = <<"f", "a", "l", "s", "e">> THEN Bool(FALSE)
              ELSE value
         [] nd.k = "num"  -> value
         [] nd.k = "bool" -> ParseFloatString(BoolString(nd.n))
         [] nd.k = "null" -> ParseFloatString(<<"n", "u", "l", "l">>)
         [] nd.k = "arr"  -> IF nd.n = 0 THEN ParseFloatString(<<>>) ELSE value
         [] OTHER -> value

\* The loop of lines 1124-1132.  ok = FALSE: `part in current` threw a TypeError
\* because current is not an object.
RECURSIVE SetWalk(_, _, _, _)
SetWalk(T, cur, parts, i) ==
    CHOOSE res \in
      {IF i > Len(parts) - 1 THEN [ok |-> TRUE, obj |-> t, cur |-> cur]
       ELSE IF t[cur].k \notin {"obj", "arr"} THEN [ok |-> FALSE, obj |-> t, cur |-> cur]
       ELSE LET part == parts[i]
                T1   == IF Append(cur, part) \in DOMAIN t THEN t
                        ELSE Assign(t, cur, part,
                                    IF IsIndex(parts[i + 1]) THEN EmptyArr ELSE EmptyObj)
            IN SetWalk(T1, Append(cur, part), parts, i + 1) : t \in {T}} : TRUE

\* [ok, obj]: obj after the call; ok = FALSE when the call threw.
setNestedValue(obj, path, value) ==
    CHOOSE res \in
      {IF ~w.ok THEN [ok |-> FALSE, obj |-> w.obj]
       ELSE IF w.obj[w.cur].k \in {"null", "undef"} THEN [ok |-> FALSE, obj |-> w.obj]
       ELSE IF w.obj[w.cur].k \notin {"obj", "arr"} THEN [ok |-> TRUE, obj |-> w.obj]
       ELSE [ok |-> TRUE, obj |-> Assign(w.obj, w.cur, parts[Len(parts)], CoerceValue(value))]
         : w \in {SetWalk(obj, <<>>, PathParts(path), 1)}, parts \in {PathParts(path)}} : TRUE

(***************************************************************************)
(* ClientSchema (src/unnamed/part_003).  The record keeps the system       *)
(* fields the merge reads or writes, every sub-entity array, and of each   *)
(* section the fields listed below; a field of the source's schema that is *)
(* not listed reads as undefined, as a missing property does.              *)
(***************************************************************************)
\* {k1: v1, ...} from a sequence of <<key, value>> pairs
RECURSIVE ObjectOfFrom(_, _, _)
ObjectOfFrom(entries, i, acc) ==
    IF i > Len(entries) THEN acc
    ELSE CHOOSE obj \in {ObjectOfFrom(entries, i + 1, a)
                           : a \in {Assign(acc, <<>>, entries[i][1], entries[i][2])}} : TRUE

ObjectOf(entries) == CHOOSE obj \in {ObjectOfFrom(e, 1, EmptyObj) : e \in {entries}} : TRUE

DigitChars == <<"0", "1", "2", "3", "4", "5", "6", "7", "8", "9">>

\* Number.prototype.toString for a non-negative integer
RECURSIVE NumToString(_)
NumToString(n) ==
    IF n < 10 THEN <<DigitChars[n + 1]>>
    ELSE NumToString(n \div 10) \o <<DigitChars[(n % 10) + 1]>>

\* createEmptyClient() at clock reading t: id = Date.now().toString()
createEmptyClient(t) ==
    ObjectOf(<<
        <<"id", Str(NumToString(t))>>,
        <<"dataCompleteness", Num(0)>>,
        <<"version", Num(1)>>,
        <<"dataSources", EmptyArr>>,
        <<"personal", ObjectOf(<< <<"firstName", Str(<<>>)>>, <<"lastName", Str(<<>>)>>,
                                  <<"email", Str(<<>>)>>, <<"age", Null>>,
                                  <<"smoker", Null>> >>)>>,
        <<"employment", ObjectOf(<< <<"jobTitle", Str(<<>>)>>,
                                    <<"monthlyGrossIncome", Null>> >>)>>,
        <<"children", EmptyArr>>,
        <<"pensions", EmptyArr>>,
        <<"properties", EmptyArr>>,
        <<"investments", EmptyArr>>,
        <<"bankAccounts", EmptyArr>>,
        <<"debts", EmptyArr>>,
        <<"protection", EmptyArr>>,
        <<"goals", ObjectOf(<< <<"shortTerm", Str(<<>>)>>, <<"retirementAge", Null>> >>)>>,
        <<"riskAttitude", ObjectOf(<< <<"riskTolerance", Null>> >>)>>,
        <<"expenditure", ObjectOf(<< <<"mortgage", Null>>, <<"rent", Null>>,
                                     <<"food", Null>>, <<"transport", Null>>,
                                     <<"currency", Str(<<>>)>> >>)>>
    >>)

\* The sub-entity factories; the generated id (clock reading plus random
\* suffix) is modelled by the owner-independent string "id".
createEmptyChild ==
    ObjectOf(<< <<"id", Str(<<"i", "d">>)>>, <<"firstName", Str(<<>>)>>, <<"age", Null>> >>)

createEmptyPension ==
    ObjectOf(<< <<"id", Str(<<"i", "d">>)>>, <<"provider", Str(<<>>)>>,
                <<"type", Str(<<>>)>>, <<"currentValue", Null>> >>)

createEmptyProperty ==
    ObjectOf(<< <<"id", Str(<<"i", "d">>)>>, <<"owner", Str(<<>>)>>, <<"currentValue", Null>> >>)

createEmptyInvestment ==
    ObjectOf(<< <<"id", Str(<<"i", "d">>)>>, <<"provider", Str(<<>>)>>, <<"currentValue", Null>> >>)

createEmptyBankAccount ==
    ObjectOf(<< <<"id", Str(<<"i", "d">>)>>, <<"bank", Str(<<>>)>>, <<"balance", Null>> >>)

createEmptyDebt ==
    ObjectOf(<< <<"id", Str(<<"i", "d">>)>>, <<"provider", Str(<<>>)>>,
                <<"outstandingBalance", Null>> >>)

createEmptyProtection ==
    ObjectOf(<< <<"id", Str(<<"i", "d">>)>>, <<"provider", Str(<<>>)>>, <<"sumAssured", Null>> >>)

\* fields.filter(f => client[section][f]).length
FilledCount(client, section, fields) ==
    Cardinality({i \in 1..Len(fields) : Truthy(Member(client, <<section>>, fields[i]))})

ArrayLength(client, key) == client[<<key>>].n

\* The body of calculateCompleteness: the weighted sum in 24ths, then Math.round.
Completeness(client) ==
    LET personalFilled == FilledCount(client, "personal",
            <<"firstName", "lastName", "dateOfBirth", "email", "phoneMobile",
              "countryOfResidence", "nationality", "relationshipStatus">>)
        empFilled == FilledCount(client, "employment",
            <<"status", "jobTitle", "employer", "monthlyGrossIncome", "retirementAge">>)
        goalFilled == FilledCount(client, "goals", <<"shortTerm", "longTerm", "retirementAge">>)
        riskFilled == FilledCount(client, "riskAttitude",
            <<"riskTolerance", "investmentTimeHorizon", "capacityForLoss">>)
        expFields == {p \in DOMAIN client : Len(p) = 2 /\ p[1] = "expenditure"
                        /\ p[2] \notin {"notes", "currency", "otherDetails"}}
        expFilled == Cardinality({p \in expFields :
                        client[p].k # "null" /\ ~(client[p].k = "str" /\ client[p].s = <<>>)})
        total24 == 75 * personalFilled + 72 * empFilled + 120 * goalFilled + 80 * riskFilled
                   + (IF ArrayLength(client, "pensions") > 0 THEN 240 ELSE 0)
                   + (IF ArrayLength(client, "properties") > 0 THEN 240 ELSE 0)
                   + (IF ArrayLength(client, "investments") > 0 THEN 120 ELSE 0)
                   + (IF ArrayLength(client, "bankAccounts") > 0 THEN 120 ELSE 0)
                   + (IF expFilled > 3 THEN 120 ELSE 0)
    IN (2 * total24 + 24) \div 48

calculateCompleteness(record) ==
    CHOOSE pct \in {Completeness(client) : client \in {record}} : TRUE

(***************************************************************************)
(* Database (src/unnamed/part_000): the clients object store, keyed by id  *)
(***************************************************************************)
IdOf(client) == client[<<"id">>].s

\* saveClient's synchronous part: it recomputes dataCompleteness on the object
\* it is given, which is the object the store then puts.
StampClient(client) ==
    CHOOSE put \in {Assign(c, <<>>, "dataCompleteness", Num(calculateCompleteness(c)))
                      : c \in {client}} : TRUE

\* store.put(client): insert or overwrite under the key path id
StorePut(clients, client) == (IdOf(client) :> client) @@ clients

CharOrder == <<" ", "a", "b", "c", "d", "e", "f", "g", "h", "i", "j", "k", "l", "m", "n",
               "o", "p", "q", "r", "s", "t", "u", "v", "w", "x", "y", "z">>

CharRank(c) == IF \E i \in 1..Len(CharOrder) : CharOrder[i] = c
               THEN CHOOSE i \in 1..Len(CharOrder) : CharOrder[i] = c ELSE 0

\* a.localeCompare(b) < 0 for lower-case words
RECURSIVE StringLess(_, _)
StringLess(a, b) ==
    IF b = <<>> THEN FALSE
    ELSE IF a = <<>> THEN TRUE
    ELSE IF CharRank(Head(a)) # CharRank(Head(b)) THEN CharRank(Head(a)) < CharRank(Head(b))
    ELSE StringLess(Tail(a), Tail(b))

\* (a.personal.lastName || '').toLowerCase()
SortKey(client) ==
    LET v == Member(client, <<"personal">>, "lastName")
    IN IF Kind(v) = "str" THEN ToLowerCase(v[<<>>].s) ELSE <<>>

\* Array.prototype.sort is stable: insert after the last element that is not greater.
RECURSIVE InsertSorted(_, _)
InsertSorted(sorted, client) ==
    IF sorted = <<>> THEN <<client>>
    ELSE IF StringLess(SortKey(client), SortKey(sorted[Len(sorted)]))
         THEN Append(InsertSorted(SubSeq(sorted, 1, Len(sorted) - 1), client), sorted[Len(sorted)])
         ELSE Append(sorted, client)

\* store.getAll(): the records in key order
RECURSIVE InKeyOrder(_, _)
InKeyOrder(clients, ids) ==
    IF ids = {} THEN <<>>
    ELSE LET least == CHOOSE i \in ids : \A j \in ids : DigitsValue(i, 0) <= DigitsValue(j, 0)
         IN <<clients[least]>> \o InKeyOrder(clients, ids \ {least})

RECURSIVE SortByLastName(_, _)
SortByLastName(list, i) ==
    IF i = 0 THEN <<>> ELSE InsertSorted(SortByLastName(list, i - 1), list[i])

getAllClients(clients) ==
    LET all == InKeyOrder(clients, DOMAIN clients) IN SortByLastName(all, Len(all))

(***************************************************************************)
(* Identity matching (BatchProcessor.findMatchingClients, isSimilar)       *)
(***************************************************************************)
\* normalize = (str) => (str || '').toLowerCase().trim(); ok = FALSE when the value
\* is truthy and no string (toLowerCase is not a function)
Normalize(v) ==
    IF ~Truthy(v) THEN [ok |-> TRUE, s |-> <<>>]
    ELSE IF Kind(v) = "str" THEN [ok |-> TRUE, s |-> Trim(ToLowerCase(v[<<>>].s))]
    ELSE [ok |-> FALSE, s |-> <<>>]

isSimilar(str1, str2) ==
    IF str1 = str2 THEN TRUE
    ELSE IF Len(str1) - Len(str2) > 3 \/ Len(str2) - Len(str1) > 3 THEN FALSE
    ELSE IF Includes(str1, str2) \/ Includes(str2, str1) THEN TRUE
    ELSE LET shorter == IF Len(str1) <= Len(str2) THEN str1 ELSE str2
             longer  == IF Len(str1) > Len(str2) THEN str1 ELSE str2
             matches == Cardinality({i \in 1..Len(shorter) : Includes(longer, <<shorter[i]>>)})
         IN matches * 10 >= 7 * Len(shorter)

\* Variant of MatchOf without the `continue` of the exact branch: the loop body
\* goes on to the similarity test.
MatchOfBoth(client, targetFirst, targetLast) ==
    LET cf == Normalize(Member(client, <<"personal">>, "firstName"))
        cl == Normalize(Member(client, <<"personal">>, "lastName"))
    IN IF ~cf.ok \/ ~cl.ok THEN [ok |-> FALSE, m |-> <<>>]
       ELSE [ok |-> TRUE,
             m |-> (IF cf.s = targetFirst /\ cl.s = targetLast
                    THEN <<[client |-> client, matchType |-> "exact"]>> ELSE <<>>)
                   \o (IF cl.s = targetLast /\ isSimilar(cf.s, targetFirst)
                       THEN <<[client |-> client, matchType |-> "similar"]>> ELSE <<>>)]

\* The loop body of findMatchingClients for one client: the matches it adds.
MatchOf(client, targetFirst, targetLast) ==
    LET cf == Normalize(Member(client, <<"personal">>, "firstName"))
        cl == Normalize(Member(client, <<"personal">>, "lastName"))
    IN IF ~cf.ok \/ ~cl.ok THEN [ok |-> FALSE, m |-> <<>>]
       ELSE IF cf.s = targetFirst /\ cl.s = targetLast
            THEN [ok |-> TRUE, m |-> <<[client |-> client, matchType |-> "exact"]>>]
       ELSE IF cl.s = targetLast /\ isSimilar(cf.s, targetFirst)
            THEN [ok |-> TRUE, m |-> <<[client |-> client, matchType |-> "similar"]>>]
       ELSE [ok |-> TRUE, m |-> <<>>]

RECURSIVE MatchLoop(_, _, _, _, _)
MatchLoop(list, i, targetFirst, targetLast, acc) ==
    IF i > Len(list) THEN [ok |-> TRUE, matches |-> acc]
    ELSE LET r == MatchOf(list[i], targetFirst, targetLast)
         IN IF ~r.ok THEN [ok |-> FALSE, matches |-> acc]
            ELSE MatchLoop(list, i + 1, targetFirst, targetLast, acc \o r.m)

\* findMatchingClients once getAllClients has resolved with `list`
findMatchingClients(list, firstName, lastName) ==
    MatchLoop(list, 1, Trim(ToLowerCase(firstName)), Trim(ToLowerCase(lastName)), <<>>)

(***************************************************************************)
(* Extraction trees.  A tree is a function from paths to nodes: an object  *)
(* (its keys in for-in order), an array (its keys the indices), a leaf     *)
(* {value, confidence} or null.                                            *)
(***************************************************************************)
ELeaf(v, c) == [k |-> "leaf", keys |-> <<>>, v |-> v, c |-> c]

EObj(keys) == [k |-> "obj", keys |-> keys, v |-> Null, c |-> 0]

EArr(n) == [k |-> "arr", keys |-> SubSeq(IndexStr, 1, n), v |-> Null, c |-> 0]

ENull == [k |-> "null", keys |-> <<>>, v |-> Null, c |-> 0]

\* value.confidence >= 0.6, in hundredths
Threshold == 60

(***************************************************************************)
(* BatchProcessor.runFullExtraction: applyFields and the metadata update   *)
(***************************************************************************)
\* Variant of getArrayItemCreator: no kind has a factory (the lookup returns null).
getArrayItemCreatorNone(key) == <<>>

\* getArrayItemCreator(key): <<creator()>> or <<>> for null
getArrayItemCreator(key) ==
    CASE key = "children"     -> <<createEmptyChild>>
      [] key = "pensions"     -> <<createEmptyPension>>
      [] key = "properties"   -> <<createEmptyProperty>>
      [] key = "investments"  -> <<createEmptyInvestment>>
      [] key = "bankAccounts" -> <<createEmptyBankAccount>>
      [] key = "debts"        -> <<createEmptyDebt>>
      [] key = "protection"   -> <<createEmptyProtection>>
      [] OTHER -> <<>>

\* Variant of ApplyLeaf: the comparison is strict (confidence > 0.6).
ApplyLeafAbove(leaf, path, acc) ==
    IF Kind(leaf.v) # "null" /\ leaf.c > Threshold
    THEN CHOOSE a \in {[ok |-> r.ok, uc |-> r.obj, n |-> acc.n + 1,
                         applied |-> Append(acc.applied, path)]
                          : r \in {setNestedValue(acc.uc, path, leaf.v)}} : TRUE
    ELSE acc

\* The leaf branch (lines 1308-1313).  acc = [ok, uc, n, applied]: updatedClient,
\* fieldsUpdated, fieldsApplied; ok = FALSE once setNestedValue has thrown.
ApplyLeaf(leaf, path, acc) ==
    IF Kind(leaf.v) # "null" /\ leaf.c >= Threshold
    THEN CHOOSE a \in {[ok |-> r.ok, uc |-> r.obj, n |-> acc.n + 1,
                         applied |-> Append(acc.applied, path)]
                          : r \in {setNestedValue(acc.uc, path, leaf.v)}} : TRUE
    ELSE acc

\* applyFields and the forEach of its array branch call each other; the walk is
\* written with the call stack explicit.  A frame is an object being iterated
\* (applyFields(data, prefix) at key number ki) or an array being iterated (the
\* forEach at item `index`, with existingArray: the record's own array when alias,
\* else the detached value arr).
ObjFrame(tp, prefix) ==
    [f |-> "obj", tp |-> tp, prefix |-> prefix, i |-> 1, key |-> "", alias |-> FALSE,
     arr |-> Null]

ArrFrame(vp, key, path, alias, arr) ==
    [f |-> "arr", tp |-> vp, prefix |-> path, i |-> 0, key |-> key, alias |-> alias,
     arr |-> arr]

\* One key of the for-in loop (lines 1281-1317): [stack, acc] after it
ObjStep(E, fr, rest, acc) ==
    LET key   == E[fr.tp].keys[fr.i]
        vp    == Append(fr.tp, key)
        value == E[vp]
        path  == JoinKey(fr.prefix, key)
        cont  == <<[fr EXCEPT !.i = @ + 1]>> \o rest
    IN CASE value.k = "arr" /\ Len(value.keys) > 0 ->
              CHOOSE nx \in
                {[stack |-> <<ArrFrame(vp, key, path, Kind(got) = "arr",
                                       IF Kind(got) = "arr" THEN Null
                                       ELSE IF Truthy(got) THEN got ELSE EmptyArr)>> \o cont,
                  acc |-> acc] : got \in {getNestedValueSafe(acc.uc, path)}} : TRUE
         [] value.k = "leaf" -> [stack |-> cont, acc |-> ApplyLeaf(value, path, acc)]
         [] value.k = "obj"  -> [stack |-> <<ObjFrame(vp, path)>> \o cont, acc |-> acc]
         [] OTHER -> [stack |-> cont, acc |-> acc]

\* existingArray as a value
ExistingArray(fr, acc) ==
    IF fr.alias THEN getNestedValueSafe(acc.uc, fr.prefix) ELSE fr.arr

\* One item of the forEach (lines 1289-1301): [stack, acc] after the push, with the
\* frame of applyFields(item, `${path}[${index}]`) on top
ItemStep(E, fr, rest, acc) ==
    CHOOSE nx \in
      {LET ip      == Append(fr.tp, IndexStr[fr.i + 1])
           item    == E[ip]
           ap      == PathParts(fr.prefix)
           len     == existing.n
           creator == getArrayItemCreator(fr.key)
           push    == existing.k = "arr" /\ fr.i >= len /\ creator # <<>>
           uc1     == IF push /\ fr.alias
                      THEN Assign(acc.uc, ap, IndexStr[len + 1], creator[1]) ELSE acc.uc
           arr1    == IF push /\ ~fr.alias
                      THEN Assign(fr.arr, <<>>, IndexStr[len + 1], creator[1]) ELSE fr.arr
           cont    == [fr EXCEPT !.i = @ + 1]
       IN IF item.k \in {"obj", "leaf", "null"}
          THEN [stack |-> <<ObjFrame(ip, JoinIndex(fr.prefix, fr.i)),
                            [cont EXCEPT !.arr = arr1]>> \o rest,
                acc |-> [acc EXCEPT !.uc = uc1]]
          ELSE [stack |-> <<cont>> \o rest, acc |-> acc]
         : existing \in {ExistingArray(fr, acc)[<<>>]}} : TRUE

\* Variant of ArrayDone: the array is cut to the number of entries the extraction
\* lists before it is set.
ArrayDoneTruncates(fr, rest, acc) ==
    CHOOSE nx \in
      {IF Kind(existing) = "arr" /\ existing[<<>>].n > 0
       THEN CHOOSE done \in {[stack |-> rest, acc |-> [acc EXCEPT !.ok = r.ok, !.uc = r.obj]]
                               : r \in {setNestedValue(acc.uc, fr.prefix,
                                    [p \in {q \in DOMAIN existing :
                                               q = <<>> \/ IndexVal[q[1]] < fr.i}
                                       |-> IF p = <<>> /\ existing[p].n > fr.i
                                           THEN Node("arr", fr.i, <<>>)
                                           ELSE existing[p]])}} : TRUE
       ELSE [stack |-> rest, acc |-> acc] : existing \in {ExistingArray(fr, acc)}} : TRUE

\* After the forEach (lines 1302-1305): set the array if it has items
ArrayDone(fr, rest, acc) ==
    CHOOSE nx \in
      {IF Kind(existing) = "arr" /\ existing[<<>>].n > 0
       THEN CHOOSE done \in {[stack |-> rest, acc |-> [acc EXCEPT !.ok = r.ok, !.uc = r.obj]]
                               : r \in {setNestedValue(acc.uc, fr.prefix, existing)}} : TRUE
       ELSE [stack |-> rest, acc |-> acc] : existing \in {ExistingArray(fr, acc)}} : TRUE

WalkStep(E, stack, acc) ==
    LET fr   == Head(stack)
        rest == Tail(stack)
    IN IF fr.f = "obj"
       THEN IF E[fr.tp].k # "obj" \/ fr.i > Len(E[fr.tp].keys)
            THEN [stack |-> rest, acc |-> acc]
            ELSE ObjStep(E, fr, rest, acc)
       ELSE IF fr.i >= Len(E[fr.tp].keys)
            THEN ArrayDone(fr, rest, acc)
            ELSE ItemStep(E, fr, rest, acc)

RECURSIVE Walk(_, _, _)
Walk(E, stack, acc) ==
    IF stack = <<>> \/ ~acc.ok THEN acc
    ELSE CHOOSE a \in {Walk(E, nx.stack, nx.acc) : nx \in {WalkStep(E, stack, acc)}} : TRUE

\* applyFields(extraction.data) (line 1321)
applyFields(data, acc) ==
    CHOOSE a \in {Walk(E, <<ObjFrame(<<>>, <<>>)>>, a0) : E \in {data}, a0 \in {acc}} : TRUE

\* dataSources.push({type: 'batch_transcript', fileName, date, fieldsUpdated})
DataSourceEntry(type, fieldsUpdated) ==
    ObjectOf(<< <<"type", Str(<<type>>)>>, <<"fieldsUpdated", Num(fieldsUpdated)>> >>)

\* (updatedClient.version || 0) + 1
NextVersion(client) ==
    LET v == Member(client, <<>>, "version")
    IN IF Kind(v) = "num" THEN Num(v[<<>>].n + 1)
       ELSE IF Truthy(v) THEN NaN ELSE Num(1)

\* Variant of WithVersion: the version is left as it is.
WithVersionKept(uc) == uc

\* Lines 1323-1333 on the merged clone
WithVersion(uc) == Assign(uc, <<>>, "version", NextVersion(uc))

WithDataSources(uc) ==
    IF Truthy(Member(uc, <<>>, "dataSources")) THEN uc
    ELSE Assign(uc, <<>>, "dataSources", EmptyArr)

PushDataSource(uc, entry) ==
    Assign(uc, <<"dataSources">>, IndexStr[uc[<<"dataSources">>].n + 1], entry)

UpdateMetadata(uc, type, fieldsUpdated) ==
    CHOOSE c4 \in
      {Assign(c3, <<>>, "dataCompleteness", Num(calculateCompleteness(c3)))
         : c3 \in {PushDataSource(c2, DataSourceEntry(type, fieldsUpdated))
                     : c2 \in {WithDataSources(c1) : c1 \in {WithVersion(c0) : c0 \in {uc}}}}}
      : TRUE

\* Lines 1275-1333: clone, applyFields(extraction.data), metadata.
\* [ok, uc, n, applied]; ok = FALSE when applyFields threw.
MergeExtraction(client, data) ==
    CHOOSE m \in
      {IF ~a.ok THEN a ELSE [a EXCEPT !.uc = UpdateMetadata(a.uc, "batch_transcript", a.n)]
         : a \in {applyFields(data, [ok |-> TRUE, uc |-> JsonClone(client), n |-> 0,
                                      applied |-> <<>>])}}
      : TRUE

(***************************************************************************)
(* App: the review form of an extraction and approveExtraction             *)
(***************************************************************************)
\* String(displayValue) of a leaf value (line 1000 of renderValue)
ValueString(v) ==
    CASE Kind(v) = "str"  -> v[<<>>].s
      [] Kind(v) = "num"  -> NumToString(v[<<>>].n)
      [] Kind(v) = "bool" -> BoolString(v[<<>>].n)
      [] OTHER -> <<>>

\* renderExtractionFields(data, prefix) from key number i on, and the forEach of
\* its array branch from item `index` on: the checkboxes in document order, each
\* with its path and the text its input starts with
RECURSIVE RenderFields(_, _, _, _)
RECURSIVE RenderItems(_, _, _, _)
RenderFields(E, tp, prefix, i) ==
    IF E[tp].k # "obj" \/ i > Len(E[tp].keys) THEN <<>>
    ELSE LET key   == E[tp].keys[i]
             vp    == Append(tp, key)
             value == E[vp]
             path  == JoinKey(prefix, key)
         IN (CASE value.k = "arr"  -> RenderItems(E, vp, path, 0)
               [] value.k = "leaf" ->
                    IF Kind(value.v) = "null" THEN <<>>
                    ELSE <<[path |-> path, value |-> ValueString(value.v)]>>
               [] value.k = "obj"  -> RenderFields(E, vp, path, 1)
               [] OTHER -> <<>>)
            \o RenderFields(E, tp, prefix, i + 1)

RenderItems(E, vp, path, index) ==
    IF index >= Len(E[vp].keys) THEN <<>>
    ELSE RenderFields(E, Append(vp, IndexStr[index + 1]), JoinIndex(path, index), 1)
         \o RenderItems(E, vp, path, index + 1)

renderExtractionFields(data) == RenderFields(data, <<>>, <<>>, 1)

\* The loop of lines 1075-1078 from selected field number i on.
\* [ok, obj]; ok = FALSE when setNestedValue threw.
RECURSIVE ApplySelected(_, _, _, _)
ApplySelected(updatedClient, selectedFields, editedValues, i) ==
    IF i > Len(selectedFields) THEN [ok |-> TRUE, obj |-> updatedClient]
    ELSE CHOOSE res \in
           {IF ~r.ok THEN r ELSE ApplySelected(r.obj, selectedFields, editedValues, i + 1)
              : r \in {setNestedValue(updatedClient, selectedFields[i],
                                      Str(editedValues[i]))}} : TRUE

\* Lines 1072-1091 of approveExtraction: clone, apply the selected fields, metadata.
\* [ok, obj]: updatedClient; ok = FALSE when the loop threw.
MergeApproved(client, selectedFields, editedValues) ==
    CHOOSE m \in
      {IF ~a.ok THEN a
       ELSE [a EXCEPT !.obj = UpdateMetadata(a.obj, "transcript", Len(selectedFields))]
         : a \in {ApplySelected(JsonClone(client), selectedFields, editedValues, 1)}} : TRUE

(***************************************************************************)
(* Extraction.findConflicts (src/unnamed/part_002)                         *)
(***************************************************************************)
\* Extraction.getNestedValue: path.split('.') and the walk
getNestedValue(obj, path) == GetWalk(obj, SplitDots(path), 1)

\* Variant of StrictEquals: the comparison converts a numeric string to a number (==).
LooseEquals(a, b) ==
    /\ Kind(a) \notin {"nan", "obj", "arr"}
    /\ \/ a = b
       \/ Kind(a) = "num" /\ Kind(b) = "str" /\ CoerceValue(b) = a
       \/ Kind(a) = "str" /\ Kind(b) = "num" /\ CoerceValue(a) = b

\* a === b: NaN equals nothing, an object only itself (and the two arguments of
\* findConflicts share no object)
StrictEquals(a, b) == Kind(a) \notin {"nan", "obj", "arr"} /\ a = b

\* checkConflicts(extracted, existing, path) from key number i on (lines 490-517):
\* the conflicts it pushes, in order
RECURSIVE CheckConflicts(_, _, _, _, _)
CheckConflicts(E, existing, tp, path, i) ==
    IF E[tp].k # "obj" \/ i > Len(E[tp].keys) THEN <<>>
    ELSE LET key            == E[tp].keys[i]
             vp             == Append(tp, key)
             extractedValue == E[vp]
             currentPath    == JoinKey(path, key)
             existingValue  == getNestedValue(existing, currentPath)
         IN (CASE extractedValue.k = "leaf" ->
                    IF /\ Kind(existingValue) \notin {"null", "undef"}
                       /\ existingValue # Str(<<>>)
                       /\ Kind(extractedValue.v) # "null"
                       /\ ~StrictEquals(existingValue, extractedValue.v)
                    THEN <<[field |-> currentPath, existingValue |-> existingValue,
                            extractedValue |-> extractedValue.v,
                            confidence |-> extractedValue.c]>>
                    ELSE <<>>
               [] extractedValue.k = "obj" -> CheckConflicts(E, existing, vp, currentPath, 1)
               [] OTHER -> <<>>)
            \o CheckConflicts(E, existing, tp, path, i + 1)

findConflicts(existingClient, extractedData) ==
    CheckConflicts(extractedData, existingClient, <<>>, <<>>, 1)

(***************************************************************************)
(* Inputs of the model: the names the name extraction can return, the      *)
(* outcomes of the full extraction, the stores a batch can start from.     *)
(***************************************************************************)
MaxQueue == 2

MaxBatches == 1

\* Approvals of a review that reach saveClient
MaxApprovals == 1

\* Transcripts uploaded from the upload tab
MaxUploads == 1

\* Checkboxes of a review form
MaxBoxes == 2

\* Records in the list findMatchingClients is called with
MaxList == 2

sJon == <<"J", "o", "n">>

sJo == <<"J", "o">>

sSmith == <<"S", "m", "i", "t", "h">>

sAmy == <<"A", "m", "y">>

sBrown == <<"B", "r", "o", "w", "n">>

sMaria == <<"M", "a", "r", "i", "a">>

sJonathan == <<"J", "o", "n", "a", "t", "h", "a", "n">>

sJno == <<"J", "n", "o">>

sJones == <<"J", "o", "n", "e", "s">>

\* extractClientName: {firstName, lastName} or null (<<>>)
NameInfos == {<<>>, <<sJon, sSmith>>, <<sJo, sSmith>>, <<sAmy, sBrown>>}

TreeMaria ==
    (<<>> :> EObj(<<"personal", "employment">>))
    @@ (<<"personal">> :> EObj(<<"firstName">>))
    @@ (<<"personal", "firstName">> :> ELeaf(Str(sMaria), 95))
    @@ (<<"employment">> :> EObj(<<"monthlyGrossIncome">>))
    @@ (<<"employment", "monthlyGrossIncome">> :> ELeaf(Num(5000), 90))

TreeThreshold ==
    (<<>> :> EObj(<<"personal">>))
    @@ (<<"personal">> :> EObj(<<"email", "age", "firstName">>))
    @@ (<<"personal", "email">> :> ELeaf(Str(<<"X">>), 59))
    @@ (<<"personal", "age">> :> ELeaf(Null, 90))
    @@ (<<"personal", "firstName">> :> ELeaf(Str(<<"X">>), 60))

TreeTypes ==
    (<<>> :> EObj(<<"personal">>))
    @@ (<<"personal">> :> EObj(<<"smoker", "email">>))
    @@ (<<"personal", "smoker">> :> ELeaf(Bool(TRUE), 80))
    @@ (<<"personal", "email">> :> ELeaf(Str(<<"1", "2">>), 70))

TreePensions ==
    (<<>> :> EObj(<<"pensions">>))
    @@ (<<"pensions">> :> EArr(1))
    @@ (<<"pensions", "0">> :> EObj(<<"type", "currentValue">>))
    @@ (<<"pensions", "0", "type">> :> ELeaf(Str(<<"X">>), 90))
    @@ (<<"pensions", "0", "currentValue">> :> ELeaf(Num(12), 59))

TreeTwoPensions ==
    (<<>> :> EObj(<<"pensions">>))
    @@ (<<"pensions">> :> EArr(2))
    @@ (<<"pensions", "0">> :> EObj(<<"provider">>))
    @@ (<<"pensions", "0", "provider">> :> ELeaf(Str(<<"X">>), 90))
    @@ (<<"pensions", "1">> :> EObj(<<"type", "currentValue">>))
    @@ (<<"pensions", "1", "type">> :> ELeaf(Str(<<"X">>), 59))
    @@ (<<"pensions", "1", "currentValue">> :> ELeaf(Num(12), 90))

\* An extraction without an acceptable leaf: one below the threshold, and one
\* below the threshold inside an array entry
TreeNothing ==
    (<<>> :> EObj(<<"personal", "pensions">>))
    @@ (<<"personal">> :> EObj(<<"email">>))
    @@ (<<"personal", "email">> :> ELeaf(Str(<<"X">>), 59))
    @@ (<<"pensions">> :> EArr(1))
    @@ (<<"pensions", "0">> :> EObj(<<"provider">>))
    @@ (<<"pensions", "0", "provider">> :> ELeaf(Str(<<"X">>), 59))

Trees == {TreeMaria, TreeThreshold, TreeTypes, TreePensions, TreeTwoPensions, TreeNothing}

\* The extractions handleTranscriptUpload can be returned
TreeReview ==
    (<<>> :> EObj(<<"pensions">>))
    @@ (<<"pensions">> :> EArr(2))
    @@ (<<"pensions", "0">> :> EObj(<<"provider">>))
    @@ (<<"pensions", "0", "provider">> :> ELeaf(Str(<<"X">>), 90))
    @@ (<<"pensions", "1">> :> EObj(<<"type", "currentValue">>))
    @@ (<<"pensions", "1", "type">> :> ELeaf(Null, 90))
    @@ (<<"pensions", "1", "currentValue">> :> ELeaf(Num(12), 50))

ReviewTrees == {TreeReview}

\* The texts the user can type over the text of an input
EditTexts == {<<"7">>}

\* A client as handleAddClient leaves it in the store
NamedClient(t, firstName, lastName) ==
    StampClient(Assign(Assign(createEmptyClient(t), <<"personal">>, "firstName", Str(firstName)),
                       <<"personal">>, "lastName", Str(lastName)))

InitialStores ==
    {<<>>, (NumToString(0) :> NamedClient(0, sJon, sSmith))}

\* The names findMatchingClients is called with
MatchFirstNames == {sJon, sJo, sJno, sAmy, <<" ", "j", "o", "n">>}

MatchLastNames == {sSmith, <<"B", "r", "o", "w", "n", " ">>}

\* Normalized first names handed to isSimilar, two of them of one length with a
\* letter of difference
SimilarNames == {<<"b", "o", "b">>, <<"r", "o", "b">>, <<"j", "o", "n">>, <<"j", "o">>}

\* The lists getAllClients resolves with: up to MaxList of these records, each at
\* most once, in any order
MatchRecords ==
    {NamedClient(0, sJonathan, sSmith), NamedClient(1, sJon, sSmith),
     NamedClient(2, sAmy, sBrown), NamedClient(3, sAmy, sJones),
     NamedClient(4, sJo, sSmith)}

MatchLists ==
    {list \in UNION {[1..n -> MatchRecords] : n \in 0..MaxList} :
        \A i, j \in DOMAIN list : list[i] = list[j] => i = j}

\* The paths, values and records App.setNestedValue is called with
SetPaths ==
    {<<"a">>, <<"a", ".", "b">>, <<"a", "[", "0", "]", ".", "b">>, <<"a", ".", "0", ".", "b">>,
     <<"pensions", "[", "1", "]", ".", "type">>, <<"personal", ".", "email">>,
     <<"personal", ".", "firstName", ".", "nick">>, <<"personal", ".", "age", ".", "unit">>}

SetValues ==
    {Str(<<"X">>), Str(<<"1", "2">>), Str(<<"t", "r", "u", "e">>), Str(<<>>),
     Str(<<" ">>), Str(<<" ", "7", " ">>), Str(<<"f", "a", "l", "s", "e">>),
     Num(5), Bool(TRUE), Bool(FALSE)}

SetRecords == {EmptyObj, createEmptyClient(0)}

\* The records calculateCompleteness is called with: a new client with any of
\* these groups of fields filled in (group, section, field, value)
ScoreWrites ==
    << <<1, <<"personal">>, "firstName", Str(<<"X">>)>>,
       <<1, <<"personal">>, "lastName", Str(<<"X">>)>>,
       <<1, <<"personal">>, "email", Str(<<"X">>)>>,
       <<1, <<"personal">>, "dateOfBirth", Str(<<"X">>)>>,
       <<2, <<"employment">>, "monthlyGrossIncome", Num(5000)>>,
       <<3, <<"employment">>, "monthlyGrossIncome", Num(0)>>,
       <<4, <<"riskAttitude">>, "riskTolerance", Str(<<"X">>)>>,
       <<5, <<"pensions">>, "0", createEmptyPension>>,
       <<6, <<"expenditure">>, "mortgage", Num(1)>>,
       <<6, <<"expenditure">>, "rent", Num(1)>>,
       <<6, <<"expenditure">>, "food", Num(1)>>,
       <<6, <<"expenditure">>, "transport", Num(0)>> >>

RECURSIVE WithWrites(_, _, _)
WithWrites(record, groups, i) ==
    IF i > Len(ScoreWrites) THEN record
    ELSE CHOOSE res \in
           {WithWrites(r, groups, i + 1) :
              r \in {IF ScoreWrites[i][1] \in groups
                     THEN Assign(record, ScoreWrites[i][2], ScoreWrites[i][3], ScoreWrites[i][4])
                     ELSE record}} : TRUE

ScoreRecords == {WithWrites(createEmptyClient(0), groups, 1) : groups \in SUBSET (1..6)}

\* The records findConflicts is called with: Jon Smith as created, and with an
\* email and an age on file
ConflictRecords ==
    {NamedClient(0, sJon, sSmith),
     Assign(NamedClient(0, sJon, sSmith), <<"personal">>, "email", Str(<<"X">>)),
     Assign(NamedClient(0, sJon, sSmith), <<"personal">>, "email", Num(12)),
     Assign(Assign(NamedClient(0, sJon, sSmith), <<"personal">>, "email", Str(<<"Y">>)),
            <<"personal">>, "age", Num(5)),
     Assign(NamedClient(0, sMaria, sSmith), <<"employment">>, "monthlyGrossIncome", Num(5000)),
     Assign(NamedClient(0, sMaria, sSmith), <<"employment">>, "monthlyGrossIncome", Num(0))}

(***************************************************************************)
(* State                                                                   *)
(***************************************************************************)
VARIABLES
    queue,             \* BatchProcessor.queue: the files, by name
    results,           \* BatchProcessor.results
    isProcessing,      \* BatchProcessor.isProcessing
    currentIndex,      \* BatchProcessor.currentIndex
    pendingDuplicate,  \* BatchProcessor._pendingDuplicate: <<>> or <<context>>
    fileStatus,        \* the status badge of each queued file (updateFileStatus)
    pc,                \* the await the processing chain is suspended at, or "idle"
    task,              \* the locals of the chain: file, nameInfo, client, merge result
    clients,           \* Database: the clients object store, id -> record
    transcripts,       \* Database: the transcripts object store
    inflight,          \* the store request issued and not yet resumed from
    now,               \* the last reading of Date.now()
    batches,           \* number of batches started
    currentClient,     \* App.currentClient: null or the record selectClient loaded
    currentExtraction, \* App.currentExtraction: <<>> (null) or <<extraction.data>>
    review,            \* the review form of currentExtraction is in the document
    approving,         \* the saveClient request approveExtraction awaits: <<>> or <<record>>
    approvals,         \* number of approvals that reached saveClient
    call               \* the last direct call of a function: its name, arguments and result

vars == <<queue, results, isProcessing, currentIndex, pendingDuplicate, fileStatus, pc,
          task, clients, transcripts, inflight, now, batches,
          currentClient, currentExtraction, review, approving, approvals, call>>

\* The state of App and of the direct calls, which the batch handlers leave alone
appVars == <<currentClient, currentExtraction, review, approving, approvals, call>>

\* The BatchProcessor object, its chain and the panel as one value
BP == [queue |-> queue, results |-> results, isProcessing |-> isProcessing,
       currentIndex |-> currentIndex, pendingDuplicate |-> pendingDuplicate,
       fileStatus |-> fileStatus, pc |-> pc, task |-> task]

SetBP(b) ==
    \E v \in {b} :
        /\ queue' = v.queue
        /\ results' = v.results
        /\ isProcessing' = v.isProcessing
        /\ currentIndex' = v.currentIndex
        /\ pendingDuplicate' = v.pendingDuplicate
        /\ fileStatus' = v.fileStatus
        /\ pc' = v.pc
        /\ task' = v.task

\* No function has been called directly
NoCall == [fn |-> "none", args |-> <<>>, ret |-> <<>>]

\* before is history, not program state: the clients store as it was when
\* processNext took the item
NoTask == [file |-> 0, nameInfo |-> <<>>, client |-> Null, data |-> <<>>,
           updated |-> Null, n |-> 0, applied |-> <<>>, before |-> <<>>]

Result(fileName, status, message, clientId, fieldsUpdated) ==
    [fileName |-> fileName, status |-> status, message |-> message,
     clientId |-> clientId, fieldsUpdated |-> fieldsUpdated]

(***************************************************************************)
(* BatchProcessor: the synchronous pieces of the handlers                  *)
(***************************************************************************)
\* updateFileStatus(this.currentIndex, status, ...): no element, no update
updateFileStatus(b, status) ==
    IF b.currentIndex + 1 \in DOMAIN b.fileStatus
    THEN [b EXCEPT !.fileStatus[b.currentIndex + 1] = status]
    ELSE b

\* Variant of processNext: the status badge is not set to processing.
processNextUnmarked(b) ==
    IF b.currentIndex >= Len(b.queue)
    THEN [b EXCEPT !.isProcessing = FALSE, !.pc = "idle", !.task = NoTask]
    ELSE [b EXCEPT !.pc = "read", !.task = [NoTask EXCEPT !.file = b.queue[b.currentIndex + 1],
                                                          !.before = clients]]

\* processNext up to its first await (lines 1035-1046)
processNext(b) ==
    IF b.currentIndex >= Len(b.queue)
    THEN [b EXCEPT !.isProcessing = FALSE, !.pc = "idle", !.task = NoTask]
    ELSE [updateFileStatus(b, "processing") EXCEPT
            !.pc = "read", !.task = [NoTask EXCEPT !.file = b.queue[b.currentIndex + 1],
                                                   !.before = clients]]

\* Variant of AdvanceQueue: the index is advanced and processNext is not called.
AdvanceWithoutNext(b) == [b EXCEPT !.currentIndex = @ + 1, !.pc = "idle", !.task = NoTask]

\* this.currentIndex++; await this.processNext() (lines 1086-1087, 1448-1449)
AdvanceQueue(b) == processNext([b EXCEPT !.currentIndex = @ + 1])

\* Variant of PushResult: the result replaces the list instead of being pushed.
PushResultOverwrites(b, r) == [b EXCEPT !.results = <<r>>]

\* this.results.push(r)
PushResult(b, r) == [b EXCEPT !.results = Append(@, r)]

\* The catch blocks (lines 1076-1084, 1438-1446) and the advance after them
CatchError(b, message) ==
    AdvanceQueue(updateFileStatus(
        PushResult(b, Result(b.task.file, "error", message, <<>>, 0)), "error"))

\* Variant of NoClientName: the result is recorded and the queue is not advanced.
NoClientNameStops(b) ==
    [updateFileStatus(
        PushResult(b, Result(b.task.file, "error",
                             "Could not identify client name in transcript", <<>>, 0)),
        "error") EXCEPT !.pc = "idle"]

\* Lines 1051-1061: no client name
NoClientName(b) ==
    AdvanceQueue(updateFileStatus(
        PushResult(b, Result(b.task.file, "error",
                             "Could not identify client name in transcript", <<>>, 0)),
        "error"))

\* Variant of SuspendForDecision: the `return` after showDuplicateModal is missing,
\* so the handler falls through to the advance of lines 1086-1087.
SuspendWithoutReturn(b, matches) ==
    AdvanceQueue([updateFileStatus(b, "duplicate") EXCEPT
        !.pendingDuplicate = <<[file |-> b.task.file, nameInfo |-> b.task.nameInfo,
                                matches |-> matches]>>,
        !.pc = "idle"])

\* Lines 1066-1071 with showDuplicateModal: store the context and return
SuspendForDecision(b, matches) ==
    [updateFileStatus(b, "duplicate") EXCEPT
        !.pendingDuplicate = <<[file |-> b.task.file, nameInfo |-> b.task.nameInfo,
                                matches |-> matches]>>,
        !.pc = "idle"]

\* processTranscriptForNewClient up to its await (lines 1228-1235): the new client
\* as saveClient is handed it
NewClient(t, nameInfo) == NamedClient(t, nameInfo[1], nameInfo[2])

\* Lines 1263-1273: extraction.success is false
ExtractionFailed(b) ==
    AdvanceQueue(updateFileStatus(
        PushResult(b, Result(b.task.file, "error", "Failed to parse AI response",
                             IdOf(b.task.client), 0)),
        "error"))

\* Lines 1337-1349 and the advance of the caller
ItemSucceeded(b) ==
    AdvanceQueue(updateFileStatus(
        PushResult(b, Result(b.task.file, "success", "", IdOf(b.task.updated), b.task.n)),
        "success"))

\* Lines 1430-1436: skip
ItemSkipped(b) ==
    AdvanceQueue(updateFileStatus(
        PushResult(b, Result(b.task.file, "skipped", "Skipped by user", <<>>, 0)),
        "skipped"))

\* true when the awaited store request has settled
Settled == inflight # <<>> /\ inflight[1].state # "pending"

Request(store, rec) == <<[store |-> store, rec |-> rec, state |-> "pending"]>>

(***************************************************************************)
(* Actions                                                                 *)
(***************************************************************************)
Init ==
    /\ queue = <<>>
    /\ results = <<>>
    /\ isProcessing = FALSE
    /\ currentIndex = 0
    /\ pendingDuplicate = <<>>
    /\ fileStatus = <<>>
    /\ pc = "idle"
    /\ task = NoTask
    /\ clients \in InitialStores
    /\ transcripts = <<>>
    /\ inflight = <<>>
    /\ now = 1
    /\ batches = 0
    /\ currentClient = Null
    /\ currentExtraction = <<>>
    /\ review = FALSE
    /\ approving = <<>>
    /\ approvals = 0
    /\ call = NoCall

\* Variant of StartBatch without the isProcessing check of lines 1019-1022.
StartBatchRestarts(n) ==
    /\ UNCHANGED appVars
    /\ batches <= MaxBatches
    /\ SetBP(processNext([BP EXCEPT !.queue = [i \in 1..n |-> i],
                                    !.results = <<>>,
                                    !.currentIndex = 0,
                                    !.isProcessing = TRUE,
                                    !.fileStatus = [i \in 1..n |-> "pending"]]))
    /\ batches' = batches + 1
    /\ UNCHANGED <<clients, transcripts, inflight, now>>

\* startBatch(files) (lines 1018-1032); a call while a batch is in progress
\* returns at line 1021
StartBatch(n) ==
    /\ UNCHANGED appVars
    /\ IF isProcessing
       THEN UNCHANGED vars
       ELSE /\ batches < MaxBatches
            /\ SetBP(processNext([BP EXCEPT !.queue = [i \in 1..n |-> i],
                                            !.results = <<>>,
                                            !.currentIndex = 0,
                                            !.isProcessing = TRUE,
                                            !.fileStatus = [i \in 1..n |-> "pending"]]))
            /\ batches' = batches + 1
            /\ UNCHANGED <<clients, transcripts, inflight, now>>

\* await App.readFileAsText(file) settles (line 1046)
ReadDone(ok) ==
    /\ UNCHANGED appVars
    /\ pc = "read"
    /\ SetBP(IF ok THEN [BP EXCEPT !.pc = "name"] ELSE CatchError(BP, "read failed"))
    /\ UNCHANGED <<clients, transcripts, inflight, now, batches>>

\* await this.extractClientName(text) settles (lines 1049-1064)
NameDone(nameInfo) ==
    /\ UNCHANGED appVars
    /\ pc = "name"
    /\ SetBP(IF nameInfo = <<>> THEN NoClientName(BP)
             ELSE [BP EXCEPT !.pc = "match", !.task.nameInfo = nameInfo])
    /\ UNCHANGED <<clients, transcripts, inflight, now, batches>>

\* await Database.getAllClients() settles in findMatchingClients (lines 1064-1074)
MatchDone(ok, t) ==
    /\ UNCHANGED appVars
    /\ pc = "match"
    /\ t \in {now, now + 1}
    /\ IF ~ok
       THEN SetBP(CatchError(BP, "store failed")) /\ UNCHANGED <<inflight, now>>
       ELSE \E r \in {findMatchingClients(getAllClients(clients),
                                          task.nameInfo[1], task.nameInfo[2])} :
              IF ~r.ok
              THEN SetBP(CatchError(BP, "TypeError")) /\ UNCHANGED <<inflight, now>>
              ELSE IF Len(r.matches) > 0
              THEN SetBP(SuspendForDecision(BP, r.matches)) /\ UNCHANGED <<inflight, now>>
              ELSE \E newClient \in {NewClient(t, task.nameInfo)} :
                     /\ SetBP([updateFileStatus(BP, "processing") EXCEPT
                                  !.pc = "saveNew", !.task.client = newClient])
                     /\ inflight' = Request("clients", newClient)
                     /\ now' = t
    /\ UNCHANGED <<clients, transcripts, batches>>

\* The object store request succeeds or fails (request.onsuccess / onerror).
\* Readwrite transactions on the clients store run in the order of their
\* creation: a put behind the put of an approval waits for it.
StoreCommit(ok) ==
    /\ UNCHANGED appVars
    /\ inflight # <<>>
    /\ inflight[1].state = "pending"
    /\ IF inflight[1].store = "clients" /\ approving # <<>>
       THEN approving[1].behind = inflight ELSE TRUE
    /\ inflight' = <<[inflight[1] EXCEPT !.state = IF ok THEN "ok" ELSE "fail"]>>
    /\ clients' = IF ok /\ inflight[1].store = "clients"
                  THEN StorePut(clients, inflight[1].rec) ELSE clients
    /\ transcripts' = IF ok /\ inflight[1].store = "transcripts"
                      THEN Append(transcripts, inflight[1].rec) ELSE transcripts
    /\ UNCHANGED <<queue, results, isProcessing, currentIndex, pendingDuplicate, fileStatus,
                   pc, task, now, batches>>

\* runFullExtraction up to its first await (lines 1248-1258)
BeginFullExtraction(b, client) ==
    [updateFileStatus(b, "processing") EXCEPT !.pc = "saveTranscript", !.task.client = client]

TranscriptOf(b, client) == [clientId |-> IdOf(client), fileName |-> b.task.file]

\* await Database.saveClient(newClient) settles (lines 1235-1238)
SaveNewDone ==
    /\ UNCHANGED appVars
    /\ pc = "saveNew"
    /\ Settled
    /\ IF inflight[1].state = "ok"
       THEN /\ SetBP(BeginFullExtraction(BP, task.client))
            /\ inflight' = Request("transcripts", TranscriptOf(BP, task.client))
       ELSE /\ SetBP(CatchError(BP, "store failed"))
            /\ inflight' = <<>>
    /\ UNCHANGED <<clients, transcripts, now, batches>>

\* await Database.saveTranscript(transcript) settles (lines 1258-1261)
TranscriptDone ==
    /\ UNCHANGED appVars
    /\ pc = "saveTranscript"
    /\ Settled
    /\ SetBP(IF inflight[1].state = "ok" THEN [BP EXCEPT !.pc = "extract"]
             ELSE CatchError(BP, "store failed"))
    /\ inflight' = <<>>
    /\ UNCHANGED <<clients, transcripts, now, batches>>

\* await Extraction.extractFromTranscript(text, client) settles (lines 1261-1335):
\* it throws, returns success = false, or returns success with the tree `data`
ExtractDone(outcome, data) ==
    /\ UNCHANGED appVars
    /\ pc = "extract"
    /\ IF outcome = "throw"
       THEN SetBP(CatchError(BP, "API request failed")) /\ UNCHANGED inflight
       ELSE IF outcome = "fail"
       THEN SetBP(ExtractionFailed(BP)) /\ UNCHANGED inflight
       ELSE \E m \in {MergeExtraction(task.client, data)} :
              IF ~m.ok
              THEN SetBP(CatchError(BP, "TypeError")) /\ UNCHANGED inflight
              ELSE \E updatedClient \in {StampClient(m.uc)} :
                     /\ SetBP([BP EXCEPT !.pc = "saveMerged", !.task.data = data,
                                         !.task.updated = updatedClient,
                                         !.task.n = m.n, !.task.applied = m.applied])
                     /\ inflight' = Request("clients", updatedClient)
    /\ UNCHANGED <<clients, transcripts, now, batches>>

\* Variant of SaveMergedDone: saveClient(updatedClient) is not awaited; the result
\* is pushed and the queue advances while the write is still in flight.
SaveMergedNotAwaited ==
    /\ UNCHANGED appVars
    /\ pc = "saveMerged"
    /\ inflight # <<>>
    /\ SetBP(ItemSucceeded(BP))
    /\ UNCHANGED <<clients, transcripts, inflight, now, batches>>

\* await Database.saveClient(updatedClient) settles (lines 1335-1349)
SaveMergedDone ==
    /\ UNCHANGED appVars
    /\ pc = "saveMerged"
    /\ Settled
    /\ SetBP(IF inflight[1].state = "ok" THEN ItemSucceeded(BP)
             ELSE CatchError(BP, "store failed"))
    /\ inflight' = <<>>
    /\ UNCHANGED <<clients, transcripts, now, batches>>

\* Variant of ResolveDuplicate that does not read the pending context: with none
\* pending it records the file at currentIndex as skipped and advances.
ResolveDuplicateBlind(action, matchIndex, t) ==
    /\ UNCHANGED appVars
    /\ t = now
    /\ matchIndex = 0
    /\ action = "skip"
    /\ pendingDuplicate = <<>>
    /\ isProcessing
    /\ SetBP(ItemSkipped(BP))
    /\ UNCHANGED <<clients, transcripts, inflight, now, batches>>

\* resolveDuplicate(action, matchIndex) (lines 1415-1450); with no pending
\* context the destructuring of line 1418 throws and nothing changes
ResolveDuplicate(action, matchIndex, t) ==
    /\ UNCHANGED appVars
    /\ t \in {now, now + 1}
    /\ IF pendingDuplicate = <<>>
       THEN UNCHANGED vars
       ELSE LET ctx == pendingDuplicate[1]
                b0  == [BP EXCEPT !.pendingDuplicate = <<>>,
                                  !.task = [NoTask EXCEPT !.file = ctx.file,
                                                          !.nameInfo = ctx.nameInfo,
                                                          !.before = task.before]]
            IN /\ matchIndex < Len(ctx.matches)
               /\ CASE action = "existing" ->
                        /\ SetBP(BeginFullExtraction(b0, ctx.matches[matchIndex + 1].client))
                        /\ inflight' = Request("transcripts",
                                TranscriptOf(b0, ctx.matches[matchIndex + 1].client))
                        /\ now' = now
                    [] action = "new" ->
                        /\ matchIndex = 0
                        /\ \E newClient \in {NewClient(t, ctx.nameInfo)} :
                             /\ SetBP([updateFileStatus(b0, "processing") EXCEPT
                                         !.pc = "saveNew", !.task.client = newClient])
                             /\ inflight' = Request("clients", newClient)
                        /\ now' = t
                    [] OTHER ->
                        /\ matchIndex = 0
                        /\ SetBP(ItemSkipped(b0))
                        /\ inflight' = inflight
                        /\ now' = now
               /\ UNCHANGED <<clients, transcripts, batches>>

\* The batch state, which the handlers of App leave alone
batchVars == <<queue, results, isProcessing, currentIndex, pendingDuplicate, fileStatus, pc,
               task, inflight, now, batches>>

\* selectClient(clientId) (lines 183-207): the record is read and shown; the
\* client view replaces whatever the main area showed
SelectClient(id) ==
    /\ IF id \in DOMAIN clients
       THEN currentClient' = clients[id] /\ review' = FALSE
       ELSE UNCHANGED <<currentClient, review>>
    /\ UNCHANGED <<batchVars, clients, transcripts, currentExtraction, approving, approvals,
                   call>>

\* showBatchUploadView (lines 1331-1333)
ShowBatchUploadView ==
    /\ currentClient' = Null
    /\ review' = FALSE
    /\ UNCHANGED <<batchVars, clients, transcripts, currentExtraction, approving, approvals,
                   call>>

\* handleTranscriptUpload (lines 815-864) from the upload tab of the client shown,
\* its awaits taken in one step: the transcript is saved, the extraction returns
\* and, when it succeeded, is kept and rendered for review
HandleTranscriptUpload(success, data) ==
    /\ currentClient # Null
    /\ Cardinality({i \in DOMAIN transcripts : transcripts[i].fileName = 0}) < MaxUploads
    /\ transcripts' = Append(transcripts, [clientId |-> IdOf(currentClient), fileName |-> 0])
    /\ IF success
       THEN currentExtraction' = <<data>> /\ review' = TRUE
       ELSE currentExtraction' = currentExtraction /\ review' = FALSE
    /\ UNCHANGED <<batchVars, clients, currentClient, approving, approvals, call>>

\* rejectExtraction (lines 1112-1116), the Cancel button of the review form
RejectExtraction ==
    /\ review
    /\ currentExtraction' = <<>>
    /\ review' = FALSE
    /\ UNCHANGED <<batchVars, clients, transcripts, currentClient, approving, approvals, call>>

\* The checkboxes of the review form
Checkboxes == IF review THEN renderExtractionFields(currentExtraction[1]) ELSE <<>>

\* The checked boxes, in document order
RECURSIVE Checked(_, _, _)
Checked(boxes, checked, i) ==
    IF i > Len(boxes) THEN <<>>
    ELSE (IF i \in checked THEN <<i>> ELSE <<>>) \o Checked(boxes, checked, i + 1)

\* approveExtraction up to its await (lines 1044-1094): the boxes in `checked` are
\* checked and the input of box `edited` (0: none) was changed to `text`
ApproveExtraction(checked, edited, text) ==
    /\ approving = <<>>
    /\ approvals < MaxApprovals
    /\ checked \subseteq DOMAIN Checkboxes
    /\ edited \in {0} \cup checked
    /\ IF currentExtraction = <<>> \/ currentClient = Null \/ checked = {}
       THEN UNCHANGED <<approving, approvals>>
       ELSE \E boxes \in {Checkboxes} :
            \E sel \in {Checked(boxes, checked, 1)} :
            \E m \in {MergeApproved(currentClient,
                                     [i \in DOMAIN sel |-> boxes[sel[i]].path],
                                     [i \in DOMAIN sel |-> IF sel[i] = edited THEN text
                                                           ELSE boxes[sel[i]].value])} :
              IF ~m.ok
              THEN UNCHANGED <<approving, approvals>>
              ELSE /\ approving' = <<[rec |-> StampClient(m.obj), input |-> currentClient,
                                      paths |-> {PathParts(boxes[i].path) : i \in checked},
                                      behind |-> IF /\ inflight # <<>>
                                                    /\ inflight[1].state = "pending"
                                                    /\ inflight[1].store = "clients"
                                                 THEN inflight ELSE <<>>]>>
                   /\ approvals' = approvals + 1
    /\ UNCHANGED <<batchVars, clients, transcripts, currentClient, currentExtraction, review,
                   call>>

\* await Database.saveClient(updatedClient) settles (lines 1094-1108): on success
\* the extraction is cleared and the client shown is read again.  The put waits
\* for the put of the batch that was pending when it was made.
ApproveSaved(ok) ==
    /\ approving # <<>>
    /\ IF approving[1].behind = <<>> THEN TRUE ELSE inflight # approving[1].behind
    /\ approving' = <<>>
    /\ IF ok
       THEN /\ clients' = StorePut(clients, approving[1].rec)
            /\ currentExtraction' = <<>>
            /\ IF currentClient # Null /\ IdOf(currentClient) \in DOMAIN clients'
               THEN currentClient' = clients'[IdOf(currentClient)] /\ review' = FALSE
               ELSE UNCHANGED <<currentClient, review>>
       ELSE UNCHANGED <<clients, currentExtraction, currentClient, review>>
    /\ UNCHANGED <<batchVars, transcripts, approvals, call>>

\* A direct call of BatchProcessor.findMatchingClients(firstName, lastName) with
\* getAllClients resolving with `list`
FindMatches(firstName, lastName, list) ==
    /\ call' = [fn |-> "findMatches", args |-> <<firstName, lastName, list>>,
                ret |-> findMatchingClients(list, firstName, lastName)]
    /\ UNCHANGED <<batchVars, clients, transcripts, currentClient, currentExtraction, review,
                   approving, approvals>>

\* A direct call of BatchProcessor.isSimilar(str1, str2), as findMatchingClients
\* makes it with the stored and the incoming first name
IsSimilar(str1, str2) ==
    /\ call' = [fn |-> "isSimilar", args |-> <<str1, str2>>, ret |-> isSimilar(str1, str2)]
    /\ UNCHANGED <<batchVars, clients, transcripts, currentClient, currentExtraction, review,
                   approving, approvals>>

\* App.setNestedValue(obj, path, value) and then App.getNestedValueSafe(obj, path)
SetThenGet(obj, path, value) ==
    /\ \E r \in {setNestedValue(obj, path, value)} :
          call' = [fn |-> "setNestedValue", args |-> <<obj, path, value>>,
                   ret |-> [ok |-> r.ok, obj |-> r.obj,
                            got |-> getNestedValueSafe(r.obj, path)]]
    /\ UNCHANGED <<batchVars, clients, transcripts, currentClient, currentExtraction, review,
                   approving, approvals>>

\* A direct call of ClientSchema.calculateCompleteness(client)
ScoreCompleteness(client) ==
    /\ call' = [fn |-> "calculateCompleteness", args |-> <<client>>,
                ret |-> calculateCompleteness(client)]
    /\ UNCHANGED <<batchVars, clients, transcripts, currentClient, currentExtraction, review,
                   approving, approvals>>

\* A direct call of Extraction.findConflicts(existingClient, extractedData)
FindConflicts(existingClient, extractedData) ==
    /\ call' = [fn |-> "findConflicts", args |-> <<existingClient, extractedData>>,
                ret |-> findConflicts(existingClient, extractedData)]
    /\ UNCHANGED <<batchVars, clients, transcripts, currentClient, currentExtraction, review,
                   approving, approvals>>

Next ==
    \/ \E n \in 0..MaxQueue : StartBatch(n)
    \/ \E ok \in BOOLEAN : ReadDone(ok)
    \/ \E nameInfo \in NameInfos : NameDone(nameInfo)
    \/ \E ok \in BOOLEAN, t \in 1..(2 + MaxQueue * MaxBatches) : MatchDone(ok, t)
    \/ \E ok \in BOOLEAN : StoreCommit(ok)
    \/ SaveNewDone
    \/ TranscriptDone
    \/ \E outcome \in {"throw", "fail", "success"}, data \in Trees : ExtractDone(outcome, data)
    \/ SaveMergedDone
    \/ \E action \in {"existing", "new", "skip"}, matchIndex \in 0..MaxQueue,
          t \in 1..(2 + MaxQueue * MaxBatches) : ResolveDuplicate(action, matchIndex, t)

Spec == Init /\ [][Next]_vars

\* The steps of the processing chain: each is the return of a collaborator call
\* (file read, name extraction, store request, full extraction).
Chain ==
    \/ \E ok \in BOOLEAN : ReadDone(ok)
    \/ \E nameInfo \in NameInfos : NameDone(nameInfo)
    \/ \E ok \in BOOLEAN, t \in 1..(2 + MaxQueue * MaxBatches) : MatchDone(ok, t)
    \/ \E ok \in BOOLEAN : StoreCommit(ok)
    \/ SaveNewDone
    \/ TranscriptDone
    \/ \E outcome \in {"throw", "fail", "success"}, data \in Trees : ExtractDone(outcome, data)
    \/ SaveMergedDone

\* A decision on the duplicate modal
Decide ==
    \E action \in {"existing", "new", "skip"}, matchIndex \in 0..MaxQueue,
       t \in 1..(2 + MaxQueue * MaxBatches) : ResolveDuplicate(action, matchIndex, t)

\* Every collaborator call returns or fails, and every shown modal is answered.
FairSpec == Init /\ [][Next]_vars /\ WF_vars(Chain) /\ WF_vars(Decide)

\* The handlers of App the user can run at any time, beside a batch
AppNext ==
    \/ \E id \in {NumToString(t) : t \in 0..(2 + MaxQueue * MaxBatches)} : SelectClient(id)
    \/ ShowBatchUploadView
    \/ \E success \in BOOLEAN, data \in ReviewTrees : HandleTranscriptUpload(success, data)
    \/ RejectExtraction
    \/ \E checked \in SUBSET (1..MaxBoxes), edited \in 0..MaxBoxes, text \in EditTexts :
          ApproveExtraction(checked, edited, text)
    \/ \E ok \in BOOLEAN : ApproveSaved(ok)

\* A batch of one document named Jon Smith
BatchOfOne ==
    \/ StartBatch(1)
    \/ ReadDone(TRUE)
    \/ NameDone(<<sJon, sSmith>>)
    \/ \E ok \in BOOLEAN, t \in 1..2 : MatchDone(ok, t)
    \/ \E ok \in BOOLEAN : StoreCommit(ok)
    \/ SaveNewDone
    \/ TranscriptDone
    \/ \E outcome \in {"fail", "success"}, data \in {TreeTypes, TreePensions} :
          ExtractDone(outcome, data)
    \/ SaveMergedDone
    \/ \E action \in {"existing", "new", "skip"}, t \in 1..2 : ResolveDuplicate(action, 0, t)

\* The batch with the interactive review running beside it
BatchAndAppNext == BatchOfOne \/ AppNext

AppSpec == Init /\ [][BatchAndAppNext]_vars

\* The functions called directly, with arguments of the caller's choosing
FnNext ==
    \/ \E existingClient \in ConflictRecords, extractedData \in Trees \cup ReviewTrees :
          FindConflicts(existingClient, extractedData)
    \/ \E firstName \in MatchFirstNames, lastName \in MatchLastNames, list \in MatchLists :
          FindMatches(firstName, lastName, list)
    \/ \E obj \in SetRecords, path \in SetPaths, value \in SetValues :
          SetThenGet(obj, path, value)
    \/ \E client \in ScoreRecords : ScoreCompleteness(client)
    \/ \E str1 \in SimilarNames, str2 \in SimilarNames : IsSimilar(str1, str2)

FnSpec == Init /\ [][FnNext]_vars

(***************************************************************************)
(* Properties                                                              *)
(***************************************************************************)
Terminal == {"success", "error", "skipped"}

\* The document at queue position currentIndex is the one in hand
Current == currentIndex + 1

\* currentIndex++ followed by processNext: the next document starts, or the batch ends
Advanced ==
    /\ currentIndex' = currentIndex + 1
    /\ IF currentIndex' < Len(queue)
       THEN /\ isProcessing'
            /\ pc' = "read"
            /\ task'.file = queue[currentIndex' + 1]
            /\ fileStatus'[currentIndex' + 1] = "processing"
       ELSE ~isProcessing' /\ pc' = "idle"

\* The document in hand ends with an error result carrying one of `messages`
ErrorRecorded(messages) ==
    /\ Len(results') = Len(results) + 1
    /\ SubSeq(results', 1, Len(results)) = results
    /\ results'[Len(results')].fileName = queue[Current]
    /\ results'[Len(results')].status = "error"
    /\ results'[Len(results')].message \in messages
    /\ fileStatus'[Current] = "error"

C1_State ==
    /\ \A i \in DOMAIN fileStatus :
          fileStatus[i] # "pending" =>
              \A j \in 1..(i - 1) : fileStatus[j] \in Terminal /\ j \in DOMAIN results
    /\ pc # "idle" =>
          /\ currentIndex < Len(queue)
          /\ task.file = queue[Current]
          /\ fileStatus[Current] = "processing"
    /\ inflight # <<>> => pc \in {"saveNew", "saveTranscript", "saveMerged"}
    /\ pendingDuplicate # <<>> =>
          /\ pc = "idle"
          /\ isProcessing
          /\ currentIndex < Len(queue)
          /\ pendingDuplicate[1].file = queue[Current]
          /\ fileStatus[Current] = "duplicate"

C1_Step ==
    /\ (pendingDuplicate # <<>> /\ pendingDuplicate' # <<>>) =>
          UNCHANGED <<currentIndex, results, fileStatus, pc, clients, transcripts, inflight>>
    /\ (currentIndex' # currentIndex /\ batches' = batches) =>
          /\ currentIndex' = currentIndex + 1
          /\ Len(results') = currentIndex'
          /\ results'[currentIndex'].status \in Terminal

\* C1: document i+1 does not begin (no read, name extraction, matching or store
\* write for it) until document i has a terminal result; while a document awaits
\* its duplicate decision the index does not advance and nothing else is processed.
C1_Sequential == []C1_State /\ [][C1_Step]_vars

\* The first of two documents awaits its decision and the second has not begun.
C1_Witness ==
    /\ pendingDuplicate # <<>>
    /\ Len(queue) = 2
    /\ currentIndex = 0
    /\ fileStatus = <<"duplicate", "pending">>

C2_State ==
    pc \in {"read", "name", "match"} =>
        /\ inflight = <<>>
        /\ \A i \in DOMAIN results :
              results[i].clientId # <<>> => results[i].clientId \in DOMAIN clients

C2_Step ==
    (Len(results') = Len(results) + 1 /\ results'[Len(results')].status = "success") =>
        /\ results'[Len(results')].clientId \in DOMAIN clients'
        /\ clients'[results'[Len(results')].clientId] = task.updated

C3_FullReport ==
    /\ 0 <= currentIndex
    /\ currentIndex <= Len(queue)
    /\ Len(results) = currentIndex
    /\ \A i \in DOMAIN results :
          results[i].fileName = queue[i] /\ results[i].status \in Terminal
    /\ ~isProcessing => Len(results) = Len(queue)

\* A completed run of two documents, one skipped and one failed.
C3_Witness ==
    /\ ~isProcessing
    /\ Len(queue) = 2
    /\ results[1].status = "skipped"
    /\ results[2].status = "error"

C4_Step ==
    /\ (pc = "name" /\ ~(pc' = "match" /\ task'.nameInfo # <<>>)) =>
          ErrorRecorded({"Could not identify client name in transcript"}) /\ Advanced
    /\ (pc = "extract" /\ pc' # "saveMerged") =>
          /\ ErrorRecorded({"Failed to parse AI response", "API request failed", "TypeError"})
          /\ Advanced

\* C4: a document with no resolvable client name, or whose full extraction returns
\* success = false or throws, ends with an error result carrying the reason, and the
\* pipeline goes on to the next queued document.
C4_ItemFailureContinues == [][C4_Step]_vars

\* The first document had no client name and the second was then merged.
C4_Witness ==
    /\ Len(results) = 2
    /\ results[1].message = "Could not identify client name in transcript"
    /\ results[2].status = "success"

\* C5: a failure of the record store during an item (getAllClients, saveClient or
\* saveTranscript rejecting) halts the pipeline: no later queued document is
\* processed after it.
C5_StoreFailureHalts ==
    \A i \in DOMAIN results :
        results[i].message = "store failed" =>
            \A j \in DOMAIN fileStatus : j > i => fileStatus[j] = "pending"

\* The store failed for the first document and the second is being processed.
C5_Witness ==
    /\ Len(queue) = 2
    /\ results # <<>>
    /\ results[1].message = "store failed"
    /\ fileStatus[2] = "processing"

StatusEdges ==
    {<<"pending", "processing">>, <<"processing", "success">>, <<"processing", "error">>,
     <<"processing", "duplicate">>, <<"duplicate", "processing">>, <<"duplicate", "skipped">>}

C6_State ==
    \A i \in DOMAIN fileStatus :
        fileStatus[i] \in Terminal => i \in DOMAIN results /\ results[i].status = fileStatus[i]

C6_Step ==
    batches' = batches =>
        /\ DOMAIN fileStatus' = DOMAIN fileStatus
        /\ \A i \in DOMAIN fileStatus :
              fileStatus'[i] = fileStatus[i] \/ <<fileStatus[i], fileStatus'[i]>> \in StatusEdges
        /\ \A i \in DOMAIN results : i \in DOMAIN results' /\ results'[i] = results[i]

\* C6: the status of every item moves along pending -> processing ->
\* {success, error, awaiting-decision}, awaiting-decision -> {processing, skipped};
\* a terminal status is the status of the item's result, and neither changes for
\* the rest of the batch.
C6_StatusGraph == []C6_State /\ [][C6_Step]_vars

\* The first document was skipped from its decision and the second awaits one.
C6_Witness == fileStatus = <<"skipped", "duplicate">>

\* C7: every started batch eventually completes, with currentIndex = queue.length
\* and isProcessing false, when every collaborator call returns or fails and every
\* awaiting item receives a decision.
C7_BatchCompletes == isProcessing ~> (~isProcessing /\ currentIndex = Len(queue))

\* A run of two documents completed after a decision for each.
C7_Witness ==
    /\ ~isProcessing
    /\ batches > 0
    /\ currentIndex = 2
    /\ results[1].status = "skipped"
    /\ results[2].status = "skipped"

C8_Step ==
    (pendingDuplicate # <<>> /\ pendingDuplicate' = <<>>) =>
        \/ \* skip
           /\ results' = Append(results, Result(pendingDuplicate[1].file, "skipped",
                                                "Skipped by user", <<>>, 0))
           /\ UNCHANGED <<clients, transcripts>>
           /\ inflight' = <<>>
        \/ \* use-existing(i)
           /\ \E i \in DOMAIN pendingDuplicate[1].matches :
                 task'.client = pendingDuplicate[1].matches[i].client
           /\ IdOf(task'.client) \in DOMAIN clients
           /\ pc' = "saveTranscript"
           /\ UNCHANGED <<clients, results>>
        \/ \* create-new
           /\ pc' = "saveNew"
           /\ inflight' = Request("clients", task'.client)
           /\ task'.client[<<"personal", "firstName">>].s = pendingDuplicate[1].nameInfo[1]
           /\ task'.client[<<"personal", "lastName">>].s = pendingDuplicate[1].nameInfo[2]
           /\ IdOf(task'.client) \notin DOMAIN clients
           /\ UNCHANGED <<clients, results>>

\* C8: the decision determines the effect on the store: use-existing(i) hands the
\* i-th offered candidate to the merge and creates no record; create-new saves one
\* record that is new to the store, seeded with the resolved names; skip leaves
\* the store and the transcripts alone and records the result skipped.
C8_DecisionEffect == [][C8_Step]_vars

\* A create-new decision is saving a record under the id of a stored record that
\* was offered as a candidate.
C8_Witness ==
    /\ pc = "saveNew"
    /\ inflight[1].state = "pending"
    /\ IdOf(task.client) \in DOMAIN clients
    /\ clients[IdOf(task.client)][<<"personal", "lastName">>].s = task.nameInfo[2]

\* The leaves of an extraction tree
LeafPaths(E) == {p \in DOMAIN E : E[p].k = "leaf"}

\* value non-null and confidence >= 0.6
Accepted(leaf) == Kind(leaf.v) # "null" /\ leaf.c >= 60

\* fieldsApplied, as record paths
AppliedPaths == {PathParts(task.applied[i]) : i \in DOMAIN task.applied}

\* C9: a leaf is written iff its value is non-null and its confidence is >= 0.6;
\* an accepted leaf is written whatever the record held at its path, a rejected
\* leaf leaves the value the record held.
C9_ThresholdGate ==
    pc = "saveMerged" =>
        /\ \A p \in LeafPaths(task.data) :
              /\ p \in AppliedPaths <=> Accepted(task.data[p])
              /\ Accepted(task.data[p]) =>
                    /\ p \in DOMAIN task.updated
                    /\ task.updated[p] = CoerceValue(task.data[p].v)[<<>>]
              /\ (~Accepted(task.data[p]) /\ p \in DOMAIN task.client) =>
                    /\ p \in DOMAIN task.updated
                    /\ task.updated[p] = task.client[p]
        /\ task.n = Cardinality({p \in LeafPaths(task.data) : Accepted(task.data[p])})
        /\ task.n = Len(task.applied)

\* A merge of a leaf at 0.59, of a null value at 0.9 and of a leaf at 0.6 whose
\* path holds a different non-empty value in the record.
C9_Witness ==
    /\ pc = "saveMerged"
    /\ \E p, q, r \in LeafPaths(task.data) :
          /\ task.data[p].c = 59 /\ Kind(task.data[p].v) # "null"
          /\ Kind(task.data[r].v) = "null" /\ task.data[r].c >= 60
          /\ task.data[q].c = 60 /\ Kind(task.data[q].v) # "null"
          /\ task.client[q].k = "str" /\ task.client[q].s # <<>>
          /\ task.client[q] # task.data[q].v[<<>>]
          /\ task.updated[q] = task.data[q].v[<<>>]

\* The record the store holds once saveClient(updatedClient) has succeeded
Persisted == clients[IdOf(task.updated)]

\* C10: every accepted leaf value (string, number or boolean) is stored unchanged
\* in the persisted record; a record merged at version 1 is persisted at version 2
\* with dataCompleteness > 0 when its name fields are set.
C10_StoredUnchanged ==
    (pc = "saveMerged" /\ Settled /\ inflight[1].state = "ok") =>
        /\ \A p \in LeafPaths(task.data) :
              (Accepted(task.data[p]) /\ Kind(task.data[p].v) \in {"str", "num", "bool"}) =>
                  p \in DOMAIN Persisted /\ Persisted[p] = task.data[p].v[<<>>]
        /\ task.client[<<"version">>] = Num(1)[<<>>] =>
              /\ Persisted[<<"version">>] = Num(2)[<<>>]
              /\ (Truthy(Scalar(Persisted[<<"personal", "firstName">>]))
                  /\ Truthy(Scalar(Persisted[<<"personal", "lastName">>]))) =>
                    Persisted[<<"dataCompleteness">>].n > 0

\* The persisted record holds NaN where the extraction gave the boolean true.
C10_Witness ==
    /\ pc = "saveMerged" /\ Settled /\ inflight[1].state = "ok"
    /\ \E p \in LeafPaths(task.data) :
          /\ Accepted(task.data[p])
          /\ task.data[p].v = Bool(TRUE)
          /\ Persisted[p].k = "nan"

\* The part of C10 that holds: a record merged at version 1 is persisted at
\* version 2 with dataCompleteness > 0, and Maria's name and income are stored as given.
C10_NewRecordMerge ==
    (pc = "saveMerged" /\ Settled /\ inflight[1].state = "ok"
     /\ task.client[<<"version">>] = Num(1)[<<>>]) =>
        /\ Persisted[<<"version">>] = Num(2)[<<>>]
        /\ Persisted[<<"dataCompleteness">>].n > 0
        /\ task.data = TreeMaria =>
              /\ Persisted[<<"personal", "firstName">>] = Str(sMaria)[<<>>]
              /\ Persisted[<<"employment", "monthlyGrossIncome">>] = Num(5000)[<<>>]

\* The seven sub-entity arrays of a record
ArrayKeys ==
    {"children", "pensions", "properties", "investments", "bankAccounts", "debts", "protection"}

\* The extraction lists an array for `key` with more entries than the record holds
Grows(key) ==
    /\ <<key>> \in DOMAIN task.data
    /\ task.data[<<key>>].k = "arr"
    /\ task.client[<<key>>].k = "arr"
    /\ task.client[<<key>>].n < Len(task.data[<<key>>].keys)

\* The factory of each sub-entity kind
FactoryOf ==
    [children |-> createEmptyChild, pensions |-> createEmptyPension,
     properties |-> createEmptyProperty, investments |-> createEmptyInvestment,
     bankAccounts |-> createEmptyBankAccount, debts |-> createEmptyDebt,
     protection |-> createEmptyProtection]

\* Entry i of the merged array is the kind's default entity with exactly the
\* accepted leaves of extraction entry i written into it
FreshEntry(key, i) ==
    LET at      == <<key, IndexStr[i + 1]>>
        entity  == SubTree(task.updated, at)
        default == FactoryOf[key]
    IN /\ DOMAIN entity = DOMAIN default
       /\ <<"id">> \in DOMAIN entity
       /\ \A q \in DOMAIN default :
             IF at \o q \in AppliedPaths
             THEN entity[q] = CoerceValue(task.data[at \o q].v)[<<>>]
             ELSE entity[q] = default[q]

NotShorter(before, after, key) ==
    before[<<key>>].k = "arr" =>
        /\ after[<<key>>].k = "arr"
        /\ after[<<key>>].n >= before[<<key>>].n
        /\ \A p \in DOMAIN before : (Len(p) = 2 /\ p[1] = key) => p \in DOMAIN after

MetadataOf(input, stored, count) ==
    /\ stored[<<"version">>] = Num(input[<<"version">>].n + 1)[<<>>]
    /\ stored[<<"dataSources">>].n = input[<<"dataSources">>].n + 1
    /\ \A p \in DOMAIN input :
          (p # <<>> /\ p[1] = "dataSources" /\ Len(p) > 1) =>
              p \in DOMAIN stored /\ stored[p] = input[p]
    /\ stored[<<"dataSources", IndexStr[input[<<"dataSources">>].n + 1], "fieldsUpdated">>]
          = Num(count)[<<>>]
    /\ stored[<<"dataCompleteness">>] = Num(Completeness(stored))[<<>>]

C13_Step ==
    /\ (pc = "saveMerged" /\ inflight # <<>> /\ inflight[1].state = "pending"
        /\ inflight' # <<>> /\ inflight'[1].state = "ok") =>
          /\ IdOf(task.updated) \in DOMAIN clients'
          /\ MetadataOf(task.client, clients'[IdOf(task.updated)], Len(task.applied))
    /\ (approving # <<>> /\ approving' = <<>> /\ clients' # clients) =>
          /\ IdOf(approving[1].input) \in DOMAIN clients'
          /\ MetadataOf(approving[1].input, clients'[IdOf(approving[1].input)],
                        Cardinality(approving[1].paths))

\* C13: every merge that is persisted, batch or interactive, stores a record whose
\* version is the input record's version + 1, whose dataSources are the input's
\* with one entry appended that records the number of fields written, and whose
\* dataCompleteness is the completeness score of the stored record.
C13_MergeMetadata == [][C13_Step]_vars

\* The store holds a record that a batch merge took to version 2 and an approved
\* review of two fields then took to version 3.
C13_Witness ==
    \E id \in DOMAIN clients :
        /\ clients[id][<<"version">>].n = 3
        /\ clients[id][<<"dataSources">>].n = 2
        /\ clients[id][<<"dataSources", "0", "type">>].s = <<"batch_transcript">>
        /\ clients[id][<<"dataSources", "1", "type">>].s = <<"transcript">>
        /\ clients[id][<<"dataSources", "1", "fieldsUpdated">>].n = 2

\* The scalar fields of a record other than the metadata a merge owes
BusinessFields(rec) ==
    {p \in DOMAIN rec : /\ p # <<>>
                         /\ p[1] \notin {"version", "dataSources", "dataCompleteness"}
                         /\ rec[p].k \notin {"obj", "arr"}}

\* Every field outside the approved paths has the value the input record had
ApprovedOnly ==
    \A p \in BusinessFields(approving[1].input) :
        p \notin approving[1].paths =>
            p \in DOMAIN approving[1].rec /\ approving[1].rec[p] = approving[1].input[p]

C14_Step ==
    (approving = <<>> /\ approving' # <<>>) =>
        currentClient' = currentClient /\ approving'[1].input = currentClient

\* C14: interactive merge writes only the approved paths: every business field
\* whose path is not approved has the same value after the merge as before, and
\* App.currentClient is not changed by the merge.
C14_OnlyApprovedWritten == [](approving # <<>> => ApprovedOnly) /\ [][C14_Step]_vars

\* An approved review of a record whose smoker field a batch merge left NaN: the
\* field was not approved and the merged record holds null there.
C14_Witness ==
    /\ approving # <<>>
    /\ <<"personal", "smoker">> \notin approving[1].paths
    /\ approving[1].input[<<"personal", "smoker">>].k = "nan"
    /\ approving[1].rec[<<"personal", "smoker">>].k = "null"

\* The part of C14 that holds: when the record given holds no NaN, every field
\* outside the approved paths keeps its value, and currentClient is not changed.
C14_FrameWithoutNaN ==
    /\ [](approving # <<>> =>
            ((\A p \in DOMAIN approving[1].input : approving[1].input[p].k # "nan")
                => ApprovedOnly))
    /\ [][C14_Step]_vars

\* The leaves of extraction E that are not inside an array
LeavesOutsideArrays(E) ==
    {p \in LeafPaths(E) : \A i \in 0..(Len(p) - 1) : E[SubSeq(p, 1, i)].k # "arr"}

\* The leaves findConflicts owes a Conflict for: extracted value non-null, existing
\* value present, not the empty string and not the extracted value
Conflicting(existing, E) ==
    {p \in LeavesOutsideArrays(E) :
        /\ Kind(E[p].v) # "null"
        /\ p \in DOMAIN existing
        /\ existing[p].k \notin {"null", "undef"}
        /\ existing[p] # Str(<<>>)[<<>>]
        /\ existing[p] # E[p].v[<<>>]}

\* C15: findConflicts(existing, extracted) returns exactly one Conflict
\* {field, existingValue, extractedValue, confidence} for each leaf outside arrays
\* whose extracted value is non-null and whose existing value is present, not ''
\* and not strictly equal to it, and no Conflict for any other path.
C15_ConflictsExact ==
    call.fn = "findConflicts" =>
        LET existing == call.args[1]
            E        == call.args[2]
        IN /\ Len(call.ret) = Cardinality(Conflicting(existing, E))
           /\ \A i \in DOMAIN call.ret :
                 LET p == PathParts(call.ret[i].field)
                 IN /\ p \in Conflicting(existing, E)
                    /\ call.ret[i].existingValue = SubTree(existing, p)
                    /\ call.ret[i].extractedValue = E[p].v
                    /\ call.ret[i].confidence = E[p].c
           /\ \A i, j \in DOMAIN call.ret :
                 call.ret[i].field = call.ret[j].field => i = j

\* Jon Smith with no email on file against an extraction of first name X and
\* email X: one Conflict, for the first name, with both values.
C15_Witness ==
    /\ call.fn = "findConflicts"
    /\ call.args[1][<<"personal", "email">>].s = <<>>
    /\ call.args[2] = TreeThreshold
    /\ Len(call.ret) = 1
    /\ call.ret[1].field = <<"personal", ".", "firstName">>
    /\ call.ret[1].existingValue = Str(sJon)
    /\ call.ret[1].extractedValue = Str(<<"X">>)

\* The normalized (lowercased, trimmed) form of a name
Normalized(name) == Trim(ToLowerCase(name))

FirstOf(rec) == Normalized(rec[<<"personal", "firstName">>].s)

LastOf(rec) == Normalized(rec[<<"personal", "lastName">>].s)

\* (characters of the shorter found anywhere in the longer) / (length of the shorter) >= 0.7
OverlapRatioAtLeast70(a, b) ==
    LET shorter == IF Len(a) <= Len(b) THEN a ELSE b
        longer  == IF Len(a) <= Len(b) THEN b ELSE a
    IN /\ Len(shorter) > 0
       /\ 10 * Cardinality({i \in 1..Len(shorter) : \E j \in 1..Len(longer) : longer[j] = shorter[i]})
            >= 7 * Len(shorter)

\* The similarity test as the specification states it
SimilarAsStated(a, b) ==
    \/ a = b
    \/ Includes(a, b) \/ Includes(b, a)
    \/ OverlapRatioAtLeast70(a, b)

\* C16: findMatches returns a stored record as a similar candidate whenever the
\* normalized last names are equal, the names are no exact match, and the
\* normalized first names are the same, or one is a substring of the other, or
\* the character overlap ratio is at least 0.7; findMatches("Jon", "Smith",
\* [Jonathan Smith]) returns one similar candidate.
C16_SimilarWhenever ==
    call.fn = "findMatches" =>
        LET tf   == Normalized(call.args[1])
            tl   == Normalized(call.args[2])
            list == call.args[3]
        IN \A i \in DOMAIN list :
              (/\ LastOf(list[i]) = tl
               /\ FirstOf(list[i]) # tf
               /\ SimilarAsStated(FirstOf(list[i]), tf))
              => \E j \in DOMAIN call.ret.matches :
                    /\ call.ret.matches[j].client = list[i]
                    /\ call.ret.matches[j].matchType = "similar"

\* findMatches("Jon", "Smith", [Jonathan Smith]) has returned no candidate.
C16_Witness ==
    /\ call.fn = "findMatches"
    /\ call.args = <<sJon, sSmith, <<NamedClient(0, sJonathan, sSmith)>> >>
    /\ call.ret.ok
    /\ call.ret.matches = <<>>

\* Auxiliary: the statement of C16 holds for first names whose lengths differ by
\* at most 3.
C16_SimilarWithinThree ==
    call.fn = "findMatches" =>
        LET tf   == Normalized(call.args[1])
            tl   == Normalized(call.args[2])
            list == call.args[3]
        IN \A i \in DOMAIN list :
              (/\ LastOf(list[i]) = tl
               /\ FirstOf(list[i]) # tf
               /\ Len(FirstOf(list[i])) - Len(tf) \in -3..3
               /\ SimilarAsStated(FirstOf(list[i]), tf))
              => \E j \in DOMAIN call.ret.matches :
                    /\ call.ret.matches[j].client = list[i]
                    /\ call.ret.matches[j].matchType = "similar"

\* C17: findMatches returns a record as an exact candidate iff both normalized
\* names equal the target's; never returns a record whose normalized last name
\* differs; returns each record at most once, as exact or similar; and lists the
\* candidates in the order of the records the store returned.
C17_ExactAndOrder ==
    call.fn = "findMatches" =>
        LET tf   == Normalized(call.args[1])
            tl   == Normalized(call.args[2])
            list == call.args[3]
            m    == call.ret.matches
        IN /\ call.ret.ok
           /\ \A i \in DOMAIN list :
                 (\E j \in DOMAIN m : m[j].client = list[i] /\ m[j].matchType = "exact")
                 <=> (FirstOf(list[i]) = tf /\ LastOf(list[i]) = tl)
           /\ \A j \in DOMAIN m :
                 /\ LastOf(m[j].client) = tl
                 /\ m[j].matchType \in {"exact", "similar"}
                 /\ \E i \in DOMAIN list : m[j].client = list[i]
           /\ \A j, k \in DOMAIN m : m[j].client = m[k].client => j = k
           /\ \A j, k \in DOMAIN m :
                 j < k => \E i1, i2 \in DOMAIN list :
                            i1 < i2 /\ list[i1] = m[j].client /\ list[i2] = m[k].client

\* " jon" Smith against [Jo Smith, Jon Smith]: Jo Smith comes first, as
\* similar, Jon Smith second and once, as exact.
C17_Witness ==
    /\ call.fn = "findMatches"
    /\ call.args[1] = <<" ", "j", "o", "n">>
    /\ call.args[2] = sSmith
    /\ call.args[3] = <<NamedClient(4, sJo, sSmith), NamedClient(1, sJon, sSmith)>>
    /\ Len(call.ret.matches) = 2
    /\ call.ret.matches[1].matchType = "similar"
    /\ call.ret.matches[2].matchType = "exact"
    /\ call.ret.matches[2].client = NamedClient(1, sJon, sSmith)

\* A proper prefix of the path resolves in rec to a value that is no container
ScalarPrefix(rec, parts) ==
    \E i \in 1..(Len(parts) - 1) :
       /\ SubSeq(parts, 1, i) \in DOMAIN rec
       /\ rec[SubSeq(parts, 1, i)].k \notin {"obj", "arr"}

\* Every intermediate of the path that the record lacked is an array when the
\* next segment is a non-negative integer literal and an object otherwise.
IntermediatesAsStated(before, after, parts) ==
    \A i \in 1..(Len(parts) - 1) :
       SubSeq(parts, 1, i) \notin DOMAIN before =>
          /\ SubSeq(parts, 1, i) \in DOMAIN after
          /\ after[SubSeq(parts, 1, i)].k = (IF IsIndex(parts[i + 1]) THEN "arr" ELSE "obj")

\* The segments of a path as the specification reads it: a[0].b is a.0.b
Segments(path) == SelectSeq(path, LAMBDA tok : tok \notin {".", "[", "]"})

\* C18: after App.setNestedValue(emptyRecord, path, v), for a valid path and a
\* string, number or boolean v, App.getNestedValueSafe(emptyRecord, path) returns
\* exactly v, and every missing intermediate was created as an array iff the next
\* segment is a non-negative integer literal.
C18_RoundTrip ==
    call.fn = "setNestedValue" =>
        /\ call.ret.ok
        /\ call.ret.got = call.args[3]
        /\ IntermediatesAsStated(call.args[1], call.ret.obj, Segments(call.args[2]))

\* setNestedValue(record, "personal.email", true) has stored NaN and
\* getNestedValueSafe returns it.
C18_Witness ==
    /\ call.fn = "setNestedValue"
    /\ call.args[2] = <<"personal", ".", "email">>
    /\ call.args[3] = Bool(TRUE)
    /\ call.ret.ok
    /\ call.ret.got = NaN

\* Auxiliary: for a path that runs through containers only, the round trip holds
\* for a number and for a string that is neither numeric nor "true" or "false",
\* and the intermediates are created as stated whatever the value.
C18_RoundTripUncoerced ==
    (call.fn = "setNestedValue" /\ ~ScalarPrefix(call.args[1], PathParts(call.args[2]))) =>
        /\ call.ret.ok
        /\ call.args[3] \in {Str(<<"X">>), Str(<<>>), Num(5)} => call.ret.got = call.args[3]
        /\ IntermediatesAsStated(call.args[1], call.ret.obj, Segments(call.args[2]))

\* A field that is non-empty: present, not null and not the empty string
NonEmptyField(rec, section, field) ==
    /\ <<section, field>> \in DOMAIN rec
    /\ rec[<<section, field>>].k \notin {"null", "undef"}
    /\ ~(rec[<<section, field>>].k = "str" /\ rec[<<section, field>>].s = <<>>)

NonEmptyCount(rec, section, fields) ==
    Cardinality({f \in fields : NonEmptyField(rec, section, f)})

\* 24 times the sum the specification rounds: 25p/8 + 15e/5 + 15g/3 + 10r/3 and
\* the five all-or-nothing weights
StatedScore24(rec) ==
    LET p == NonEmptyCount(rec, "personal",
               {"firstName", "lastName", "dateOfBirth", "email", "phoneMobile",
                "countryOfResidence", "nationality", "relationshipStatus"})
        e == NonEmptyCount(rec, "employment",
               {"status", "jobTitle", "employer", "monthlyGrossIncome", "retirementAge"})
        g == NonEmptyCount(rec, "goals", {"shortTerm", "longTerm", "retirementAge"})
        r == NonEmptyCount(rec, "riskAttitude",
               {"riskTolerance", "investmentTimeHorizon", "capacityForLoss"})
        x == NonEmptyCount(rec, "expenditure", {"mortgage", "rent", "food", "transport"})
    IN ((24 * 25) \div 8) * p + ((24 * 15) \div 5) * e + ((24 * 15) \div 3) * g
       + ((24 * 10) \div 3) * r
       + 24 * 10 * (IF rec[<<"pensions">>].n > 0 THEN 1 ELSE 0)
       + 24 * 10 * (IF rec[<<"properties">>].n > 0 THEN 1 ELSE 0)
       + 24 * 5 * (IF rec[<<"investments">>].n > 0 THEN 1 ELSE 0)
       + 24 * 5 * (IF rec[<<"bankAccounts">>].n > 0 THEN 1 ELSE 0)
       + 24 * 5 * (IF x > 3 THEN 1 ELSE 0)

\* n = round(s24 / 24): n - 1/2 <= s24 / 24 < n + 1/2
IsRounded(n, s24) == 48 * n - 24 <= 2 * s24 /\ 2 * s24 < 48 * n + 24

\* C19: scoreCompleteness(record) is round(25p/8 + 15e/5 + 15g/3 + 10r/3 + 10 for
\* pensions + 10 for properties + 5 for investments + 5 for bank accounts + 5 for
\* more than 3 populated expenditure amounts), p, e, g, r counting the non-empty
\* fields of the four subsets; it is an integer in 0..100.
C19_ScoreFormula ==
    call.fn = "calculateCompleteness" =>
        /\ call.ret \in 0..100
        /\ IsRounded(call.ret, StatedScore24(call.args[1]))

\* A new client whose only entry is a monthly gross income of 0 has been scored 0.
C19_Witness ==
    /\ call.fn = "calculateCompleteness"
    /\ call.args[1] = Assign(createEmptyClient(0), <<"employment">>, "monthlyGrossIncome", Num(0))
    /\ call.ret = 0

\* Auxiliary: the formula of C19 holds for a record whose monthly gross income is
\* not 0.
C19_FormulaWithoutZero ==
    (call.fn = "calculateCompleteness"
     /\ call.args[1][<<"employment", "monthlyGrossIncome">>] # Num(0)[<<>>]) =>
        /\ call.ret \in 0..100
        /\ IsRounded(call.ret, StatedScore24(call.args[1]))

\* The record `after` that a merge puts in the store over the stored record
\* `before`: its version is greater and it keeps every dataSources entry of
\* `before`, the trace of each merge persisted so far.
Supersedes(before, after) ==
    /\ after[<<"version">>].n > before[<<"version">>].n
    /\ after[<<"dataSources">>].n >= before[<<"dataSources">>].n
    /\ \A p \in DOMAIN before :
          (p # <<>> /\ p[1] = "dataSources" /\ Len(p) > 1) =>
              p \in DOMAIN after /\ after[p] = before[p]

C20_Step ==
    /\ (pc = "saveMerged" /\ inflight # <<>> /\ inflight[1].state = "pending"
        /\ inflight' # <<>> /\ inflight'[1].state = "ok"
        /\ IdOf(task.updated) \in DOMAIN clients) =>
          Supersedes(clients[IdOf(task.updated)], clients'[IdOf(task.updated)])
    /\ (approving # <<>> /\ approving' = <<>> /\ clients' # clients
        /\ IdOf(approving[1].input) \in DOMAIN clients) =>
          Supersedes(clients[IdOf(approving[1].input)], clients'[IdOf(approving[1].input)])

\* C20: under any interleaving of batch and interactive merges, every persisted
\* merge stores a version greater than the one stored for that client id and loses
\* no merge persisted before it: the record a batch item persists after an
\* interactive merge of the same client still carries what that merge wrote.
C20_VersionsAndMerges == [][C20_Step]_vars

\* The approved review was saved and reloaded (App.currentClient: version 2, the
\* transcript's dataSources entry, a pension on file); the batch item matched to
\* the same client has then saved its own merge: the store holds version 2 again,
\* with the batch's dataSources entry only and no pension.
C20_Witness ==
    /\ currentClient # Null
    /\ currentClient[<<"version">>].n = 2
    /\ currentClient[<<"dataSources", "0", "type">>].s = <<"transcript">>
    /\ currentClient[<<"pensions">>].n > 0
    /\ IdOf(currentClient) \in DOMAIN clients
    /\ LET stored == clients[IdOf(currentClient)]
       IN /\ stored[<<"version">>].n = 2
          /\ stored[<<"dataSources">>].n = 1
          /\ stored[<<"dataSources", "0", "type">>].s = <<"batch_transcript">>
          /\ stored[<<"pensions">>].n = 0

\* Every element of every sub-entity array of rec exists (no hole) and has the
\* fields of the default entity of its kind.
DefaultShaped(rec) ==
    \A key \in ArrayKeys :
       (<<key>> \in DOMAIN rec /\ rec[<<key>>].k = "arr") =>
          \A i \in 0..(rec[<<key>>].n - 1) :
             /\ <<key, IndexStr[i + 1]>> \in DOMAIN rec
             /\ \A f \in {p \in DOMAIN FactoryOf[key] : Len(p) = 1} :
                   <<key, IndexStr[i + 1]>> \o f \in DOMAIN rec

\* C21: in interactive merge as in batch merge, a write at an array index that
\* does not exist yet first creates a default sub-entity for every missing index
\* up to the requested one: no array of a stored record, or of a record on its
\* way to the store, has a hole or an element without the default-shape fields.
C21_NoHoles ==
    /\ \A id \in DOMAIN clients : DefaultShaped(clients[id])
    /\ approving # <<>> => DefaultShaped(approving[1].rec)
    /\ (pc = "saveMerged" /\ task.updated # Null) => DefaultShaped(task.updated)

\* The approved review wrote pensions[1].currentValue into a record without
\* pensions: the stored array has length 2, no element 0, and its element 1 has
\* no provider.
C21_Witness ==
    \E id \in DOMAIN clients :
        /\ clients[id][<<"pensions">>].n = 2
        /\ <<"pensions", "0">> \notin DOMAIN clients[id]
        /\ <<"pensions", "1", "currentValue">> \in DOMAIN clients[id]
        /\ <<"pensions", "1", "provider">> \notin DOMAIN clients[id]

\* No leaf of the extraction has both a non-null value and confidence >= 0.6
NothingAccepted(E) == \A p \in LeafPaths(E) : ~Accepted(E[p])

\* C22: a batch auto-merge of an extraction without an acceptable leaf writes
\* nothing: every business field and the length of every sub-entity array are
\* unchanged, fieldsUpdated is 0, and dataCompleteness keeps its value.
C22_NothingWritten ==
    (pc = "saveMerged" /\ NothingAccepted(task.data)) =>
        /\ task.n = 0
        /\ BusinessFields(task.updated) = BusinessFields(task.client)
        /\ \A p \in BusinessFields(task.client) : task.updated[p] = task.client[p]
        /\ \A key \in ArrayKeys : task.updated[<<key>>].n = task.client[<<key>>].n
        /\ task.updated[<<"dataCompleteness">>] = task.client[<<"dataCompleteness">>]

\* The merge of the extraction without an acceptable leaf into a record without
\* pensions is being saved with one pension and a higher dataCompleteness.
C22_Witness ==
    /\ pc = "saveMerged"
    /\ task.data = TreeNothing
    /\ task.n = 0
    /\ task.client[<<"pensions">>].n = 0
    /\ task.updated[<<"pensions">>].n = 1
    /\ task.updated[<<"dataCompleteness">>].n > task.client[<<"dataCompleteness">>].n

\* Auxiliary: such a merge changes no field the record had (fieldsUpdated is 0
\* and every business field keeps its value) when the record holds no NaN; what
\* it adds are default entities.
C22_OnlyDefaultEntitiesAdded ==
    (/\ pc = "saveMerged"
     /\ NothingAccepted(task.data)
     /\ \A p \in DOMAIN task.client : task.client[p].k # "nan") =>
        /\ task.n = 0
        /\ \A p \in BusinessFields(task.client) :
              p \in DOMAIN task.updated /\ task.updated[p] = task.client[p]

\* The value the specification's coercion stores for the form string s
CoercedAsStated(s) ==
    IF Trim(s) # <<>> /\ AllDigits(Trim(s)) THEN Num(DigitsValue(Trim(s), 0))
    ELSE IF s = <<"t", "r", "u", "e">> THEN Bool(TRUE)
    ELSE IF s = <<"f", "a", "l", "s", "e">> THEN Bool(FALSE)
    ELSE Str(s)

\* C23: a written form string whose trimmed form is non-empty and numeric is
\* stored as that number, "true" and "false" as the booleans, every other string
\* (the empty and the whitespace-only string included) unchanged; the stored
\* value is never NaN.
C23_CoercionOfStrings ==
    (call.fn = "setNestedValue" /\ Kind(call.args[3]) = "str") =>
        /\ call.ret.ok
        /\ call.ret.got = CoercedAsStated(call.args[3][<<>>].s)
        /\ Kind(call.ret.got) # "nan"

\* The string " " was written and NaN is stored.
C23_Witness ==
    /\ call.fn = "setNestedValue"
    /\ call.args[3] = Str(<<" ">>)
    /\ call.ret.ok
    /\ call.ret.got = NaN

\* Auxiliary: written through containers, the coercion is as stated for every
\* string that is empty or has a character other than white space.
C23_CoercionOfNonBlank ==
    (/\ call.fn = "setNestedValue"
     /\ Kind(call.args[3]) = "str"
     /\ ~ScalarPrefix(call.args[1], PathParts(call.args[2]))
     /\ (call.args[3][<<>>].s = <<>> \/ Trim(call.args[3][<<>>].s) # <<>>)) =>
        /\ call.ret.ok
        /\ call.ret.got = CoercedAsStated(call.args[3][<<>>].s)

\* C24: a write through a path whose proper prefix resolves to a string, number,
\* boolean or null is rejected with an error and leaves the record unchanged:
\* nothing is silently overwritten or silently dropped.
C24_PathConflictRejected ==
    (call.fn = "setNestedValue" /\ ScalarPrefix(call.args[1], PathParts(call.args[2]))) =>
        /\ ~call.ret.ok
        /\ call.ret.obj = call.args[1]

\* setNestedValue(record, "personal.firstName.nick", "X") on a record whose first
\* name is a string has returned without an error; the record is as it was and
\* the path reads undefined.
C24_Witness ==
    /\ call.fn = "setNestedValue"
    /\ call.args[2] = <<"personal", ".", "firstName", ".", "nick">>
    /\ call.args[3] = Str(<<"X">>)
    /\ <<"personal", "firstName">> \in DOMAIN call.args[1]
    /\ call.args[1][<<"personal", "firstName">>].k = "str"
    /\ call.ret.ok
    /\ call.ret.obj = call.args[1]
    /\ call.ret.got = Undefined

\* Auxiliary: a write through a prefix that is null throws and leaves the record
\* unchanged; a write through any other non-container leaves it unchanged too.
C24_NullPrefixThrows ==
    (call.fn = "setNestedValue" /\ ScalarPrefix(call.args[1], PathParts(call.args[2]))) =>
        /\ call.ret.obj = call.args[1]
        /\ call.args[2] = <<"personal", ".", "age", ".", "unit">> => ~call.ret.ok

C25_Step ==
    /\ (isProcessing /\ ~isProcessing') => currentIndex' >= Len(queue')
    /\ (isProcessing /\ \E n \in 0..MaxQueue : StartBatch(n)) =>
          UNCHANGED <<queue, results, currentIndex, pendingDuplicate>>

\* C25: while a batch is in progress, the time an item awaits a duplicate decision
\* included, isProcessing is true and a call of startBatch changes neither queue,
\* results, currentIndex nor the pending duplicate context; isProcessing becomes
\* false only when currentIndex has reached the length of the queue.
C25_BatchInProgress ==
    /\ []((currentIndex < Len(queue) \/ pendingDuplicate # <<>>) => isProcessing)
    /\ [][C25_Step]_vars

\* The first of two documents awaits its duplicate decision.
C25_Witness ==
    /\ isProcessing
    /\ pendingDuplicate # <<>>
    /\ Len(queue) = 2
    /\ currentIndex = 0
    /\ fileStatus[1] = "duplicate"

C26_Step ==
    (pendingDuplicate = <<>>
     /\ \E action \in {"existing", "new", "skip"}, matchIndex \in 0..MaxQueue,
           t \in 1..(2 + MaxQueue * MaxBatches) : ResolveDuplicate(action, matchIndex, t)) =>
        UNCHANGED <<results, currentIndex, clients, transcripts, inflight, pc, task>>

\* C26: an item that awaits a decision is resolved by exactly one decision: a call
\* of resolveDuplicate made when no item awaits one (before any duplicate was
\* found, or after a decision was accepted and while its processing is in flight)
\* pushes no result, does not advance currentIndex and makes no store write.
C26_OneDecisionPerItem == [][C26_Step]_vars

\* A use-existing decision was accepted, no context is pending and the item's
\* extraction call is in flight: a second click on the modal's button arrives here.
C26_Witness ==
    /\ pendingDuplicate = <<>>
    /\ isProcessing
    /\ pc = "extract"
    /\ fileStatus[currentIndex + 1] = "processing"
    /\ IdOf(task.client) \in DOMAIN clients
    /\ task.client[<<"version">>].n = clients[IdOf(task.client)][<<"version">>].n

\* A stored record is unchanged: same version, same business fields, same
\* dataSources
SameRecord(before, after) ==
    /\ after[<<"version">>] = before[<<"version">>]
    /\ BusinessFields(after) = BusinessFields(before)
    /\ \A p \in BusinessFields(before) : after[p] = before[p]
    /\ \A key \in ArrayKeys : after[<<key>>] = before[<<key>>]
    /\ {p \in DOMAIN after : p # <<>> /\ p[1] = "dataSources"}
         = {p \in DOMAIN before : p # <<>> /\ p[1] = "dataSources"}
    /\ \A p \in DOMAIN before : (p # <<>> /\ p[1] = "dataSources") => after[p] = before[p]

\* The step pushes the result of the current item, with status error
EndsInError ==
    /\ Len(results') = Len(results) + 1
    /\ results'[Len(results')].status = "error"

C27_Step ==
    EndsInError =>
        \A id \in DOMAIN task.before :
            id \in DOMAIN clients' /\ SameRecord(task.before[id], clients'[id])

\* C27: when a batch item ends with status error (no name, extraction failure,
\* store failure, exception while applying fields), every client record that was
\* in the store before the item started is unchanged: same version, same
\* business fields, same dataSources.
C27_ErrorLeavesStore == [][C27_Step]_vars

\* The second document of a batch has ended in error after its create-new save
\* replaced the record the first document had created and merged under the same
\* id.
C27_Witness ==
    /\ Len(results) = 2
    /\ results[1].status = "success"
    /\ results[2].status = "error"
    /\ results[2].clientId = results[1].clientId
    /\ results[1].clientId \in DOMAIN clients
    /\ clients[results[1].clientId][<<"version">>].n = 1

\* The item holds a record under the id of a different record that was in the
\* store when the item started: a record it created under an id in use
CreatedOverStored ==
    /\ task.client # Null
    /\ IdOf(task.client) \in DOMAIN task.before
    /\ task.before[IdOf(task.client)] # task.client

C27_StepWithFreshIds ==
    (EndsInError /\ ~CreatedOverStored) =>
        \A id \in DOMAIN task.before :
            id \in DOMAIN clients' /\ SameRecord(task.before[id], clients'[id])

\* Auxiliary: the statement of C27 holds for every item that did not create a
\* record under an id in use.
C27_ErrorLeavesStoreWithFreshIds == [][C27_StepWithFreshIds]_vars

\* The leaves of E outside arrays that findConflicts(rec, E) reports
Reported(rec, E) ==
    LET conflicts == findConflicts(rec, E)
    IN {q \in LeavesOutsideArrays(E) :
           \E i \in DOMAIN conflicts : PathParts(conflicts[i].field) = q}

\* The accepted leaves of E outside arrays whose value is a string, a number or
\* a boolean
AcceptedScalars(E) ==
    {q \in LeavesOutsideArrays(E) :
        Accepted(E[q]) /\ Kind(E[q].v) \in {"str", "num", "bool"}}

\* C28: after the batch merge of extraction E into record R has produced R',
\* findConflicts(R', E) has no Conflict for any leaf of E outside arrays whose
\* value is a non-null string, number or boolean with confidence >= 0.6.
C28_ReimportStable ==
    pc = "saveMerged" =>
        AcceptedScalars(task.data) \cap Reported(task.updated, task.data) = {}

\* The merge of an extraction that gives the email "12" at 0.9: the merged record
\* holds the number 12 and findConflicts reports the email against it.
C28_Witness ==
    /\ pc = "saveMerged"
    /\ <<"personal", "email">> \in AcceptedScalars(task.data)
    /\ task.data[<<"personal", "email">>].v = Str(<<"1", "2">>)
    /\ task.updated[<<"personal", "email">>] = Num(12)[<<>>]
    /\ <<"personal", "email">> \in Reported(task.updated, task.data)

\* Auxiliary: the statement of C28 holds for every accepted leaf whose value the
\* merge stored as given.
C28_StableWhereStoredAsGiven ==
    pc = "saveMerged" =>
        \A q \in AcceptedScalars(task.data) :
            (q \in DOMAIN task.updated /\ task.updated[q] = task.data[q].v[<<>>]) =>
                q \notin Reported(task.updated, task.data)

\* C29: the first-name similarity test is symmetric, isSimilar(a, b) =
\* isSimilar(b, a) for all normalized names a and b, names of one length included.
C29_Symmetric ==
    call.fn = "isSimilar" =>
        call.ret = isSimilar(call.args[2], call.args[1])

\* isSimilar("bob", "rob"): two names of one length, every letter of the first
\* in the second, the answer true.
C29_Witness ==
    /\ call.fn = "isSimilar"
    /\ call.args = <<<<"b", "o", "b">>, <<"r", "o", "b">>>>
    /\ call.ret = TRUE

\* Auxiliary: the test is symmetric for names of different lengths.
C29_SymmetricForUnequalLengths ==
    (call.fn = "isSimilar" /\ Len(call.args[1]) # Len(call.args[2])) =>
        call.ret = isSimilar(call.args[2], call.args[1])

\* The step on which the put of a created record commits (saveClient(newClient)
\* of processTranscriptForNewClient succeeds)
CreationCommits ==
    /\ pc = "saveNew"
    /\ inflight # <<>> /\ inflight[1].state = "pending"
    /\ inflight' # <<>> /\ inflight'[1].state = "ok"

C30_Step ==
    CreationCommits =>
        /\ IdOf(inflight[1].rec) \notin DOMAIN clients
        /\ Cardinality(DOMAIN clients') = Cardinality(DOMAIN clients) + 1

\* C30: creating a client never overwrites a stored record: the id of every
\* created record differs from the id of every record in the store, also when the
\* clock has not advanced since the last creation, and the store grows by exactly
\* one record per creation.
C30_CreationAddsOne == [][C30_Step]_vars

\* A document with no candidate in the store has been saved as a new client under
\* the id of a record of another family name that was in the store when the item
\* started: the store holds the new record in its place.
C30_Witness ==
    /\ pc = "saveNew"
    /\ inflight # <<>> /\ inflight[1].state = "ok"
    /\ IdOf(task.client) \in DOMAIN task.before
    /\ Normalized(task.before[IdOf(task.client)][<<"personal", "lastName">>].s)
           # Normalized(task.nameInfo[2])
    /\ Cardinality(DOMAIN clients) = Cardinality(DOMAIN task.before)
    /\ clients[IdOf(task.client)] = task.client

\* Auxiliary: a creation under an id that is not a key of the store adds one
\* record and leaves every stored record as it was.
C30_FreshIdStep ==
    (CreationCommits /\ IdOf(inflight[1].rec) \notin DOMAIN clients) =>
        /\ Cardinality(DOMAIN clients') = Cardinality(DOMAIN clients) + 1
        /\ \A id \in DOMAIN clients : clients'[id] = clients[id]

C30_FreshIdAddsOne == [][C30_FreshIdStep]_vars

=============================================================================
